---- MODULE Spec2Model ----
(***************************************************************************)
(* The Function controller of kubeless (pkg/controller/                    *)
(* function_controller.go): the informer's event handlers, the rate        *)
(* limited work queue, the single worker and processItem's finalizer       *)
(* state machine, run against a cluster API that holds the Function        *)
(* object and its owned resources.                                         *)
(***************************************************************************)
EXTENDS Integers, Sequences, FiniteSets, TLC

\* ------------------------------------------------------------------ bounds
\* Number of create / edit / delete requests the users send.
MaxOps == 2

\* ------------------------------------------------------- program constants
maxRetries == 5

functionFinalizer == "kubeless.io/function"

\* The finalizer the API server adds for a foreground deletion.
foregroundFinalizer == "foregroundDeletion"

\* namespace/name keys of the Functions of the cluster.
Keys == {"default/f"}

\* The owned resources deleteK8sResources removes, in its order.
Owned == {"Deployment", "Service", "ConfigMap", "Monitor", "Autoscaler"}

\* --------------------------------------------------------- Function objects
\* spec.HorizontalPodAutoscaler: ObjectMeta.Name, Spec.ScaleTargetRef.Name,
\* the types of Spec.Metrics, and whether OwnerReferences is set.
NoHPA ==
    [name |-> "", scaleTarget |-> "", metrics |-> <<>>, ownerRefs |-> FALSE]

HPAWith(m) ==
    [name |-> "f", scaleTarget |-> "f", metrics |-> m, ownerRefs |-> FALSE]

\* The autoscaler specs the users choose from.
HPAChoices ==
    { NoHPA, HPAWith(<<"Resource">>), HPAWith(<<"Object">>),
      HPAWith(<<"External">>), HPAWith(<<>>) }

\* The Function spec as the users write it: only the autoscaler varies.
UserSpec(hpa) ==
    [function |-> "code", handler |-> "foo.bar", contentType |-> "text",
     deps |-> "", timeout |-> "", deployment |-> "user", hpa |-> hpa,
     runtime |-> "python2.7", checksum |-> "sha256:1"]

\* An absent object (of the API server, of the cache, of the worker).
\* status is what a controller has recorded on the object about its
\* reconciliation: "" is nothing recorded.
NoObj ==
    [exists |-> FALSE, dt |-> 0, rv |-> 0, finalizers |-> {},
     labels |-> FALSE, status |-> "", spec |-> UserSpec(NoHPA)]

\* The object a watch event or a list delivers: a freshly decoded copy of the
\* stored object.  DeletionTimestamp is a pointer (*metav1.Time): 0 is nil,
\* and two decoded objects never share the pointee, so the pointer is named
\* by the resource version of the object that holds it.
Decode(stored) ==
    [stored EXCEPT !.dt = IF stored.dt # 0 THEN stored.rv ELSE 0]

\* A watch event for key k carrying the stored object.
Event(type, k, stored) ==
    [type |-> type, key |-> k, obj |-> Decode(stored)]

VARIABLES
    smclient,   \* c.smclient # nil: the monitor client is configured
    api,        \* the Function objects the API server stores
    res,        \* the owned resources the API server stores
    removed,    \* the controller removed the finalizer of this incarnation
    rvNext,     \* the API server's next resource version
    nops,       \* requests the users have sent
    watch,      \* watch events on their way to the informer
    cache,      \* the informer's indexer
    wq,         \* the rate limiting work queue
    pc,         \* where the worker is
    key,        \* the key the worker took from the queue
    funcObj,    \* the object processItem holds
    att,        \* what the current processing attempt has done
    reported,   \* the key whose error the last finished processNextItem
                \* handed to utilruntime.HandleError
    stopCh,     \* the stop channel is closed
    run,        \* where Run is: "syncing", "working", "returned"
    clientset,  \* the owned objects of a clientset, with their content
    config,     \* the Deployment of c.config.Data["deployment"]
    out         \* what a call of a pkg/utils function returned

vars ==
    <<smclient, api, res, removed, rvNext, nops, watch, cache, wq, pc, key,
      funcObj, att, reported, stopCh, run, clientset, config, out>>

clusterVars == <<api, res, removed, rvNext, watch>>

workerVars == <<pc, key, funcObj, att>>

\* What only the calls of the pkg/utils functions on their own change.
utilVars == <<clientset, config, out>>

\* ------------------------------------------------------------ the work queue
\* workqueue.NewRateLimitingQueue: the queue, the dirty and the processing
\* set, the shutdown flag, the rate limiter's failure counts and the keys
\* that wait for their backoff.
NewRateLimitingQueue ==
    [queue |-> <<>>, dirty |-> {}, processing |-> {}, shuttingDown |-> FALSE,
     failures |-> [k \in Keys |-> 0], waiting |-> {}]

\* workqueue.Type.ShutDown
ShutDown(q) ==
    [q EXCEPT !.shuttingDown = TRUE]

\* Add without the test of the dirty set.
Add_NoDirtyTest(q, item) ==
    IF item \in q.processing
    THEN [q EXCEPT !.dirty = @ \cup {item}]
    ELSE [q EXCEPT !.dirty = @ \cup {item}, !.queue = Append(@, item)]

\* Add without the test of the processing set.
Add_NoProcessingTest(q, item) ==
    IF item \in q.dirty THEN q
    ELSE [q EXCEPT !.dirty = @ \cup {item}, !.queue = Append(@, item)]

\* workqueue.Type.Add
Add(q, item) ==
    IF q.shuttingDown THEN q
    ELSE IF item \in q.dirty THEN q
    ELSE IF item \in q.processing
         THEN [q EXCEPT !.dirty = @ \cup {item}]
         ELSE [q EXCEPT !.dirty = @ \cup {item}, !.queue = Append(@, item)]

\* workqueue.Type.Get, for a queue that is not empty
Get(q) ==
    [q EXCEPT !.queue = Tail(@),
              !.processing = @ \cup {Head(q.queue)},
              !.dirty = @ \ {Head(q.queue)}]

\* Done leaving the item in the processing set.
Done_KeepProcessing(q, item) ==
    IF item \in q.dirty
    THEN [q EXCEPT !.queue = Append(@, item)]
    ELSE q

\* workqueue.Type.Done
Done(q, item) ==
    IF item \in q.dirty
    THEN [q EXCEPT !.processing = @ \ {item}, !.queue = Append(@, item)]
    ELSE [q EXCEPT !.processing = @ \ {item}]

\* rateLimiter.NumRequeues
NumRequeues(q, item) ==
    q.failures[item]

\* rateLimiter.Forget
Forget(q, item) ==
    [q EXCEPT !.failures[item] = 0]

\* AddRateLimited: the limiter counts the failure and the key waits for its
\* backoff before it is added.
AddRateLimited(q, item) ==
    [q EXCEPT !.failures[item] = @ + 1, !.waiting = @ \cup {item}]

\* ------------------------------------------------- the informer's handlers
\* functionObjChanged without the comparison of the autoscaler overrides.
functionObjChanged_NoAutoscaler(oldFunctionObj, newFunctionObj) ==
    IF oldFunctionObj.dt # newFunctionObj.dt THEN TRUE
    ELSE IF oldFunctionObj.rv = newFunctionObj.rv THEN FALSE
    ELSE LET newSpec == oldFunctionObj.spec
             oldSpec == newFunctionObj.spec
         IN  \/ newSpec.function # oldSpec.function
             \/ newSpec.handler # oldSpec.handler
             \/ newSpec.contentType # oldSpec.contentType
             \/ newSpec.deps # oldSpec.deps
             \/ newSpec.timeout # oldSpec.timeout
             \/ newSpec.deployment # oldSpec.deployment

\* functionObjChanged comparing whether the deletion timestamps are set, not
\* the pointers.
functionObjChanged_DeletionSet(oldFunctionObj, newFunctionObj) ==
    IF (oldFunctionObj.dt = 0) # (newFunctionObj.dt = 0) THEN TRUE
    ELSE IF oldFunctionObj.rv = newFunctionObj.rv THEN FALSE
    ELSE LET newSpec == oldFunctionObj.spec
             oldSpec == newFunctionObj.spec
         IN  \/ newSpec.function # oldSpec.function
             \/ newSpec.handler # oldSpec.handler
             \/ newSpec.contentType # oldSpec.contentType
             \/ newSpec.deps # oldSpec.deps
             \/ newSpec.timeout # oldSpec.timeout
             \/ newSpec.deployment # oldSpec.deployment
             \/ newSpec.hpa # oldSpec.hpa

\* functionObjChanged processing whenever the new object's deletion
\* timestamp is set.
functionObjChanged_NewDeleting(oldFunctionObj, newFunctionObj) ==
    IF newFunctionObj.dt # 0 THEN TRUE
    ELSE IF oldFunctionObj.rv = newFunctionObj.rv THEN FALSE
    ELSE LET newSpec == oldFunctionObj.spec
             oldSpec == newFunctionObj.spec
         IN  \/ newSpec.function # oldSpec.function
             \/ newSpec.handler # oldSpec.handler
             \/ newSpec.contentType # oldSpec.contentType
             \/ newSpec.deps # oldSpec.deps
             \/ newSpec.timeout # oldSpec.timeout
             \/ newSpec.deployment # oldSpec.deployment
             \/ newSpec.hpa # oldSpec.hpa

functionObjChanged(oldFunctionObj, newFunctionObj) ==
    IF oldFunctionObj.dt # newFunctionObj.dt THEN TRUE
    ELSE IF oldFunctionObj.rv = newFunctionObj.rv THEN FALSE
    ELSE LET newSpec == oldFunctionObj.spec
             oldSpec == newFunctionObj.spec
         IN  IF \/ newSpec.function # oldSpec.function
                \/ newSpec.handler # oldSpec.handler
                \/ newSpec.contentType # oldSpec.contentType
                \/ newSpec.deps # oldSpec.deps
                \/ newSpec.timeout # oldSpec.timeout
             THEN TRUE
             ELSE IF \/ newSpec.deployment # oldSpec.deployment
                     \/ newSpec.hpa # oldSpec.hpa
                  THEN TRUE
                  ELSE FALSE

AddFunc(q, k) ==
    Add(q, k)

UpdateFunc(q, old, new, k) ==
    IF functionObjChanged(old, new) THEN Add(q, k) ELSE q

\* DeleteFunc without the queue.Add.
DeleteFunc_NoAdd(q, k) ==
    q

DeleteFunc(q, k) ==
    Add(q, k)

\* The informer takes the next watch event, stores the object in its indexer
\* and calls the handler.  It stops with the process and with the stop
\* channel (informer.Run(stopCh)).
DeliverAdded ==
    /\ pc # "crashed"
    /\ ~stopCh
    /\ watch # <<>>
    /\ Head(watch).type = "Added"
    /\ watch' = Tail(watch)
    /\ cache' = [cache EXCEPT ![Head(watch).key] = Head(watch).obj]
    /\ wq' = AddFunc(wq, Head(watch).key)
    /\ UNCHANGED <<utilVars, smclient, stopCh, run, reported, api, res,
                   removed, rvNext, nops, workerVars>>

DeliverModified ==
    /\ pc # "crashed"
    /\ ~stopCh
    /\ watch # <<>>
    /\ Head(watch).type = "Modified"
    /\ watch' = Tail(watch)
    /\ cache' = [cache EXCEPT ![Head(watch).key] = Head(watch).obj]
    /\ wq' = UpdateFunc(wq, cache[Head(watch).key], Head(watch).obj,
                        Head(watch).key)
    /\ UNCHANGED <<utilVars, smclient, stopCh, run, reported, api, res,
                   removed, rvNext, nops, workerVars>>

DeliverDeleted ==
    /\ pc # "crashed"
    /\ ~stopCh
    /\ watch # <<>>
    /\ Head(watch).type = "Deleted"
    /\ watch' = Tail(watch)
    /\ cache' = [cache EXCEPT ![Head(watch).key] = NoObj]
    /\ wq' = DeleteFunc(wq, Head(watch).key)
    /\ UNCHANGED <<utilVars, smclient, stopCh, run, reported, api, res,
                   removed, rvNext, nops, workerVars>>

\* The delaying queue adds a key whose backoff has elapsed.
WaitElapsed(k) ==
    /\ pc # "crashed"
    /\ k \in wq.waiting
    /\ wq' = Add([wq EXCEPT !.waiting = @ \ {k}], k)
    /\ UNCHANGED <<utilVars, smclient, stopCh, run, reported, clusterVars,
                   nops, cache, workerVars>>

\* ------------------------------------------------------- the API server
\* The API server stores obj under a new resource version and notifies the
\* watchers; an object whose deletion timestamp is set and whose finalizers
\* are empty is deleted instead.
WriteFunction(k, obj) ==
    LET new == [obj EXCEPT !.rv = rvNext]
    IN  /\ rvNext' = rvNext + 1
        /\ IF new.dt # 0 /\ new.finalizers = {}
           THEN /\ api' = [api EXCEPT ![k] = NoObj]
                /\ watch' = Append(watch, Event("Deleted", k, new))
           ELSE /\ api' = [api EXCEPT ![k] = new]
                /\ watch' = Append(watch,
                       Event(IF api[k].exists THEN "Modified" ELSE "Added",
                             k, new))

\* A user creates the Function.
UserCreate(k, hpa) ==
    /\ nops < MaxOps
    /\ ~api[k].exists
    /\ WriteFunction(k, [NoObj EXCEPT !.exists = TRUE, !.spec = UserSpec(hpa)])
    /\ removed' = [removed EXCEPT ![k] = FALSE]
    /\ nops' = nops + 1
    /\ UNCHANGED <<utilVars, smclient, stopCh, run, reported, res, cache, wq,
                   workerVars>>

\* A user edits the autoscaler of the Function's spec.
UserEdit(k, hpa) ==
    /\ nops < MaxOps
    /\ api[k].exists
    /\ hpa # api[k].spec.hpa
    /\ WriteFunction(k, [api[k] EXCEPT !.spec.hpa = hpa])
    /\ nops' = nops + 1
    /\ UNCHANGED <<utilVars, smclient, stopCh, run, reported, res, removed,
                   cache, wq, workerVars>>

\* A user requests the deletion of the Function, in the background or in the
\* foreground (the API server then adds the foreground finalizer).
UserDelete(k, foreground) ==
    /\ nops < MaxOps
    /\ api[k].exists
    /\ api[k].dt = 0
    /\ WriteFunction(k, [api[k] EXCEPT
           !.dt = 1,
           !.finalizers = IF foreground THEN @ \cup {foregroundFinalizer}
                          ELSE @])
    /\ nops' = nops + 1
    /\ UNCHANGED <<utilVars, smclient, stopCh, run, reported, res, removed,
                   cache, wq, workerVars>>

\* The garbage collector completes a foreground deletion.
GarbageCollect(k) ==
    /\ api[k].exists
    /\ api[k].dt # 0
    /\ foregroundFinalizer \in api[k].finalizers
    /\ WriteFunction(k, [api[k] EXCEPT !.finalizers = @ \ {foregroundFinalizer}])
    /\ UNCHANGED <<utilVars, smclient, stopCh, run, reported, res, removed,
                   nops, cache, wq, workerVars>>

\* ---------------------------------------------------------------- the worker
\* What one processing attempt has done so far: the branch processItem took,
\* the answer to each delete call and each create-or-update call, the answer
\* to the finalizer update, and the value processItem returned.
NoAttempt ==
    [path |-> "none", del |-> [r \in Owned |-> "none"],
     app |-> [r \in Owned |-> "none"], fin |-> "none", ret |-> "none"]

\* utils.FunctionObjHasFinalizer
FunctionObjHasFinalizer(obj, finalizer) ==
    finalizer \in obj.finalizers

\* The branch processItem takes for the object it found in the indexer.
PathOf(obj) ==
    IF ~obj.exists THEN "gone"
    ELSE IF obj.dt # 0
         THEN IF ~FunctionObjHasFinalizer(obj, functionFinalizer)
              THEN "deleted"
              ELSE "delete"
         ELSE "ensure"

\* FirstStep with the deletion starting at the Service.
FirstStep_DeleteFromService(obj) ==
    CASE PathOf(obj) = "gone" -> "ret"
      [] PathOf(obj) = "deleted" -> "ret"
      [] PathOf(obj) = "delete" -> "delService"
      [] OTHER -> IF ~FunctionObjHasFinalizer(obj, functionFinalizer)
                  THEN "addFinalizer"
                  ELSE "ensurePrep"

\* FirstStep with the test of the finalizer of an active Function inverted.
FirstStep_SkipAddFinalizer(obj) ==
    CASE PathOf(obj) = "gone" -> "ret"
      [] PathOf(obj) = "deleted" -> "ret"
      [] PathOf(obj) = "delete" -> "delDeployment"
      [] OTHER -> IF FunctionObjHasFinalizer(obj, functionFinalizer)
                  THEN "addFinalizer"
                  ELSE "ensurePrep"

\* FirstStep without the return for a deletion already processed.
FirstStep_NoProcessedReturn(obj) ==
    CASE PathOf(obj) = "gone" -> "ret"
      [] PathOf(obj) = "deleted" -> "delDeployment"
      [] PathOf(obj) = "delete" -> "delDeployment"
      [] OTHER -> IF ~FunctionObjHasFinalizer(obj, functionFinalizer)
                  THEN "addFinalizer"
                  ELSE "ensurePrep"

\* FirstStep adding the finalizer on every processing of an active Function.
FirstStep_AlwaysAddFinalizer(obj) ==
    CASE PathOf(obj) = "gone" -> "ret"
      [] PathOf(obj) = "deleted" -> "ret"
      [] PathOf(obj) = "delete" -> "delDeployment"
      [] OTHER -> "addFinalizer"

\* The first call of that branch ("ret": processItem returns nil at once).
FirstStep(obj) ==
    CASE PathOf(obj) = "gone" -> "ret"
      [] PathOf(obj) = "deleted" -> "ret"
      [] PathOf(obj) = "delete" -> "delDeployment"
      [] OTHER -> IF ~FunctionObjHasFinalizer(obj, functionFinalizer)
                  THEN "addFinalizer"
                  ELSE "ensurePrep"

\* IsDeleteError with the error of a delete dropped.
IsDeleteError_Never(answer) ==
    FALSE

\* IsDeleteError without the IsNotFound test.
IsDeleteError_NotFound(answer) ==
    answer # "ok"

\* err != nil && !k8sErrors.IsNotFound(err), for the answer to a delete
IsDeleteError(answer) ==
    answer # "ok" /\ answer # "notfound"

\* deleteAutoscale returning nil at once when there is no monitor client.
DeleteAutoscaleStart_ReturnWithoutClient ==
    IF smclient THEN "delMonitor"
    ELSE IF att.path = "delete" THEN "removeFinalizer" ELSE "ret"

\* deleteAutoscale deletes the service monitor only with a monitor client.
DeleteAutoscaleStart ==
    IF smclient THEN "delMonitor" ELSE "delAutoscaler"

\* What follows deleteAutoscale's nil: deleteK8sResources returns nil and
\* processItem removes the finalizer, or ensureK8sResources returns nil.
AfterDeleteAutoscale(path) ==
    IF path = "delete" THEN "removeFinalizer" ELSE "ret"

\* The Spec.HorizontalPodAutoscaler test of ensureK8sResources.
AutoscalerDeclared(obj) ==
    obj.spec.hpa.name # "" /\ obj.spec.hpa.scaleTarget # ""

\* AfterDeployment without the else branch that deletes a former autoscaler.
AfterDeployment_NoDelete(obj) ==
    IF AutoscalerDeclared(obj) THEN "hpaOwner" ELSE "ret"

\* What follows EnsureFuncDeployment's nil.
AfterDeployment(obj) ==
    IF AutoscalerDeclared(obj) THEN "hpaOwner" ELSE DeleteAutoscaleStart

\* AfterOwner with a service monitor for an external first metric as well.
AfterOwner_ExternalToo(obj) ==
    IF Len(obj.spec.hpa.metrics) = 0 THEN "crashed"
    ELSE IF obj.spec.hpa.metrics[1] \in {"Object", "External"}
         THEN IF smclient THEN "createMonitor" ELSE "crashed"
         ELSE "createAutoscale"

\* Spec.Metrics[0].Type == ObjectMetricSourceType, then *c.smclient: an
\* index out of range and a nil dereference panic.
AfterOwner(obj) ==
    IF Len(obj.spec.hpa.metrics) = 0 THEN "crashed"
    ELSE IF obj.spec.hpa.metrics[1] = "Object"
         THEN IF smclient THEN "createMonitor" ELSE "crashed"
         ELSE "createAutoscale"

\* HandleResult with the success branch re-adding the key.
HandleResult_AlwaysRequeue(q, item, err) ==
    IF NumRequeues(q, item) < maxRetries
    THEN AddRateLimited(q, item)
    ELSE Forget(q, item)

\* processItem's test of FunctionObjAddFinalizer's error, with the return
\* dropped.
AfterAddFinalizer_IgnoreError(answer) ==
    "ensurePrep"

\* processItem's test of FunctionObjAddFinalizer's error.
AfterAddFinalizer(answer) ==
    IF answer # "ok" THEN "ret" ELSE "ensurePrep"

\* processNextItem after processItem returned err: utilruntime.HandleError
\* is called in the branch that gives the key up.
HandleErrorCalled(q, item, err) ==
    /\ err # "ok"
    /\ ~(NumRequeues(q, item) < maxRetries)

\* HandleResult re-adding the key once more when it gives the key up.
HandleResult_RequeueAtCeiling(q, item, err) ==
    IF err = "ok" THEN Forget(q, item)
    ELSE IF NumRequeues(q, item) < maxRetries
         THEN AddRateLimited(q, item)
         ELSE [Forget(q, item) EXCEPT !.waiting = @ \cup {item}]

\* HandleResult without the Forget of a successful attempt.
HandleResult_KeepCountOnSuccess(q, item, err) ==
    IF err = "ok" THEN q
    ELSE IF NumRequeues(q, item) < maxRetries
         THEN AddRateLimited(q, item)
         ELSE Forget(q, item)

\* HandleResult giving up one failure later.
HandleResult_OneMoreRetry(q, item, err) ==
    IF err = "ok" THEN Forget(q, item)
    ELSE IF NumRequeues(q, item) <= maxRetries
         THEN AddRateLimited(q, item)
         ELSE Forget(q, item)

\* processNextItem after processItem returned err: the new queue.
HandleResult(q, item, err) ==
    IF err = "ok" THEN Forget(q, item)
    ELSE IF NumRequeues(q, item) < maxRetries
         THEN AddRateLimited(q, item)
         ELSE Forget(q, item)

\* c.queue.Get() of processNextItem
GetItem ==
    /\ run = "working"
    /\ pc = "idle"
    /\ IF wq.queue # <<>>
       THEN /\ key' = Head(wq.queue)
            /\ wq' = Get(wq)
            /\ pc' = "lookup"
            /\ att' = NoAttempt
       ELSE /\ wq.shuttingDown
            /\ pc' = "exited"
            /\ UNCHANGED <<key, wq, att>>
    /\ UNCHANGED <<utilVars, smclient, stopCh, run, reported, clusterVars,
                   nops, cache, funcObj>>

\* processItem up to its first cluster call
Lookup ==
    /\ pc = "lookup"
    /\ funcObj' = cache[key]
    /\ pc' = FirstStep(cache[key])
    /\ att' = [att EXCEPT !.path = PathOf(cache[key]),
                          !.ret = IF FirstStep(cache[key]) = "ret"
                                  THEN "ok" ELSE @]
    /\ UNCHANGED <<utilVars, smclient, stopCh, run, reported, clusterVars,
                   nops, cache, wq, key>>

\* One delete call of deleteK8sResources or deleteAutoscale, and the test of
\* its answer; any call of the cluster API may fail.
DeleteCall(r, next) ==
    \E fail \in BOOLEAN :
        LET answer == IF fail THEN "err"
                      ELSE IF res[key][r] THEN "ok" ELSE "notfound"
        IN  /\ res' = [res EXCEPT ![key][r] = IF fail THEN @ ELSE FALSE]
            /\ pc' = IF IsDeleteError(answer) THEN "ret" ELSE next
            /\ att' = [att EXCEPT
                   !.del[r] = answer,
                   !.ret = IF IsDeleteError(answer) THEN "err"
                           ELSE IF next = "ret" THEN "ok" ELSE @]
            /\ UNCHANGED <<utilVars, smclient, stopCh, run, reported, api,
                           removed, rvNext, watch, nops, cache, wq, key,
                           funcObj>>

DeleteDeployment ==
    pc = "delDeployment" /\ DeleteCall("Deployment", "delService")

DeleteService ==
    pc = "delService" /\ DeleteCall("Service", "delConfigMap")

DeleteConfigMap ==
    pc = "delConfigMap" /\ DeleteCall("ConfigMap", DeleteAutoscaleStart)

DeleteServiceMonitor ==
    pc = "delMonitor" /\ DeleteCall("Monitor", "delAutoscaler")

DeleteAutoscale ==
    pc = "delAutoscaler"
    /\ DeleteCall("Autoscaler", AfterDeleteAutoscale(att.path))

\* The answer of the API server to an update of the Function object.
UpdateAnswer(k, obj, fail) ==
    IF fail \/ ~api[k].exists \/ api[k].rv # obj.rv THEN "err" ELSE "ok"

\* utils.FunctionObjRemoveFinalizer, and processItem's return
RemoveFinalizer ==
    /\ pc = "removeFinalizer"
    /\ \E fail \in BOOLEAN :
        IF UpdateAnswer(key, funcObj, fail) = "ok"
        THEN /\ WriteFunction(key, [api[key] EXCEPT
                    !.finalizers = funcObj.finalizers \ {functionFinalizer},
                    !.labels = funcObj.labels,
                    !.spec = funcObj.spec])
             /\ removed' = [removed EXCEPT ![key] = TRUE]
             /\ att' = [att EXCEPT !.fin = "ok", !.ret = "ok"]
        ELSE /\ UNCHANGED <<api, rvNext, watch, removed>>
             /\ att' = [att EXCEPT !.fin = "err", !.ret = "err"]
    /\ pc' = "ret"
    /\ UNCHANGED <<utilVars, smclient, stopCh, run, reported, res, nops,
                   cache, wq, key, funcObj>>

\* utils.FunctionObjAddFinalizer, and processItem's test of its error
AddFinalizer ==
    /\ pc = "addFinalizer"
    /\ \E fail \in BOOLEAN :
        IF UpdateAnswer(key, funcObj, fail) = "ok"
        THEN /\ WriteFunction(key, [api[key] EXCEPT
                    !.finalizers = funcObj.finalizers \cup {functionFinalizer},
                    !.labels = funcObj.labels,
                    !.spec = funcObj.spec])
             /\ att' = [att EXCEPT !.fin = "ok"]
             /\ pc' = AfterAddFinalizer("ok")
        ELSE /\ UNCHANGED <<api, rvNext, watch>>
             /\ att' = [att EXCEPT
                    !.fin = "err",
                    !.ret = IF AfterAddFinalizer("err") = "ret"
                            THEN "err" ELSE @]
             /\ pc' = AfterAddFinalizer("err")
    /\ UNCHANGED <<utilVars, smclient, stopCh, run, reported, res, removed,
                   nops, cache, wq, key, funcObj>>

\* The object the worker holds is the indexer's own: what the worker writes
\* into it shows in the indexer for as long as the indexer holds that object.
Mutate(new) ==
    /\ funcObj' = new
    /\ cache' = IF cache[key].exists /\ cache[key].rv = funcObj.rv
                THEN [cache EXCEPT ![key] = new]
                ELSE cache

\* FirstEnsureCall resuming after the resources the cluster already holds.
FirstEnsureCall_Resume ==
    IF ~res[key]["ConfigMap"] THEN "ensureCM"
    ELSE IF ~res[key]["Service"] THEN "ensureSvc"
         ELSE "ensureDeployment"

\* The first create-or-update call of ensureK8sResources.
FirstEnsureCall ==
    "ensureCM"

\* ensureK8sResources up to GetFunctionOwnerReference: the function label
\* and the merge of the configured Deployment into Spec.Deployment.
EnsurePrepare ==
    /\ pc = "ensurePrep"
    /\ Mutate([funcObj EXCEPT !.labels = TRUE, !.spec.deployment = "merged"])
    /\ pc' = FirstEnsureCall
    /\ UNCHANGED <<utilVars, smclient, stopCh, run, reported, clusterVars,
                   nops, wq, key, att>>

\* The runtimes of the registry, as langruntime.AddFakeConfig fills it.
RegisteredRuntimes ==
    {"python2.7", "python3.4"}

\* DepsUnresolvable answering that every runtime can build dependencies.
DepsUnresolvable_Never(obj) ==
    FALSE

\* The Function requests dependencies against a runtime the registry does
\* not hold: EnsureFuncDeployment returns an error for it.
DepsUnresolvable(obj) ==
    obj.spec.deps # "" /\ obj.spec.runtime \notin RegisteredRuntimes

\* Whether a create-or-update call for resource r of obj can fail: any call
\* can (the cluster answers with an error), and the Deployment call of a
\* Function whose dependencies cannot be built cannot do otherwise.
EnsureOutcomes(r, obj) ==
    IF r = "Deployment" /\ DepsUnresolvable(obj) THEN {TRUE} ELSE BOOLEAN

\* AfterEnsure going on to the next call after an error.
AfterEnsure_Continue(fail, next) ==
    next

\* ensureK8sResources' test of the error of a create-or-update call: an
\* error is returned at once.
AfterEnsure(fail, next) ==
    IF fail THEN "ret" ELSE next

\* One create-or-update call of ensureK8sResources, and the test of its error.
EnsureCall(r, next) ==
    \E fail \in EnsureOutcomes(r, funcObj) :
        /\ res' = [res EXCEPT ![key][r] = IF fail THEN @ ELSE TRUE]
        /\ pc' = AfterEnsure(fail, next)
        /\ att' = [att EXCEPT
               !.app[r] = IF fail THEN "err" ELSE "ok",
               !.ret = IF fail THEN "err"
                       ELSE IF next = "ret" THEN "ok" ELSE @]
        /\ UNCHANGED <<utilVars, smclient, stopCh, run, reported, api,
                       removed, rvNext, watch, nops, cache, wq, key, funcObj>>

EnsureFuncConfigMap ==
    pc = "ensureCM" /\ EnsureCall("ConfigMap", "ensureSvc")

EnsureFuncService ==
    pc = "ensureSvc" /\ EnsureCall("Service", "ensureDeployment")

EnsureFuncDeployment ==
    pc = "ensureDeployment" /\ EnsureCall("Deployment", AfterDeployment(funcObj))

\* The autoscaler branch: the owner references, then the first metric.  A
\* panic unwinds through the deferred queue.Done and ends the process.
SetAutoscalerOwner ==
    /\ pc = "hpaOwner"
    /\ Mutate([funcObj EXCEPT !.spec.hpa.ownerRefs = TRUE])
    /\ pc' = AfterOwner(funcObj)
    /\ wq' = IF AfterOwner(funcObj) = "crashed" THEN Done(wq, key) ELSE wq
    /\ UNCHANGED <<utilVars, smclient, stopCh, run, reported, clusterVars,
                   nops, key, att>>

CreateServiceMonitor ==
    pc = "createMonitor" /\ EnsureCall("Monitor", "createAutoscale")

CreateAutoscale ==
    pc = "createAutoscale" /\ EnsureCall("Autoscaler", "ret")

\* processNextItem after processItem returned, with the deferred queue.Done
Finish ==
    /\ pc = "ret"
    /\ wq' = Done(HandleResult(wq, key, att.ret), key)
    /\ pc' = "idle"
    /\ key' = ""
    /\ funcObj' = NoObj
    /\ att' = NoAttempt
    /\ reported' = IF HandleErrorCalled(wq, key, att.ret) THEN {key} ELSE {}
    /\ UNCHANGED <<utilVars, smclient, stopCh, run, clusterVars, nops, cache>>

\* ------------------------------------- synthesis and apply (pkg/utils)
\* A Deployment as far as the merge and the synthesis read it: the
\* annotations (a map), Spec.Replicas (a pointer: 0 is nil) and the image of
\* the first container ("" is unset).
NoDeployment ==
    [annotations |-> [k \in {} |-> ""], replicas |-> 0, image |-> ""]

\* The merge of two maps in which the source wins on a shared key.
MergeMaps_SourceWins(destination, source) ==
    [k \in DOMAIN destination \cup DOMAIN source |->
        IF k \in DOMAIN source THEN source[k] ELSE destination[k]]

\* The merge of two maps: the destination keeps its entries and takes the
\* entries of the source it lacks.
MergeMaps(destination, source) ==
    [k \in DOMAIN destination \cup DOMAIN source |->
        IF k \in DOMAIN destination THEN destination[k] ELSE source[k]]

\* utils.MergeDeployments: the destination (the Function's
\* Spec.Deployment) after the merge with the source (the configured one).
MergeDeployments(destinationDeployment, sourceDeployment) ==
    [annotations |-> MergeMaps(destinationDeployment.annotations,
                               sourceDeployment.annotations),
     replicas |-> IF destinationDeployment.replicas # 0
                  THEN destinationDeployment.replicas
                  ELSE sourceDeployment.replicas,
     image |-> IF destinationDeployment.image # ""
               THEN destinationDeployment.image
               ELSE sourceDeployment.image]

\* The module and the function a handler names.
splitHandler ==
    ("foo.bar" :> <<"foo", "bar">>) @@ ("foo.bar2" :> <<"foo", "bar2">>)
    @@ ("foo2.bar2" :> <<"foo2", "bar2">>)

\* What the registry answers for a runtime: the extension of its source
\* files ("" for a runtime it does not hold), the name of its dependency
\* manifest, its image.
FileExtension(runtime) ==
    IF runtime \in RegisteredRuntimes THEN ".py" ELSE ""

DepName ==
    "requirements.txt"

FunctionImage(runtime) ==
    "kubeless/python"

\* ConfigMapData with the dependency entry only for a non-empty descriptor.
ConfigMapData_DepsOnlyIfGiven(fn) ==
    LET base == ("handler" :> fn.spec.handler)
                @@ ((splitHandler[fn.spec.handler][1]
                       \o FileExtension(fn.spec.runtime)) :> fn.spec.function)
    IN  IF fn.spec.runtime \in RegisteredRuntimes /\ fn.spec.deps # ""
        THEN base @@ (DepName :> fn.spec.deps)
        ELSE base

\* The Data of the ConfigMap EnsureFuncConfigMap synthesizes.
ConfigMapData(fn) ==
    LET base == ("handler" :> fn.spec.handler)
                @@ ((splitHandler[fn.spec.handler][1]
                       \o FileExtension(fn.spec.runtime)) :> fn.spec.function)
    IN  IF fn.spec.runtime \in RegisteredRuntimes
        THEN base @@ (DepName :> fn.spec.deps)
        ELSE base

ConfigMapOf(fn) ==
    [labels |-> fn.labels, data |-> ConfigMapData(fn)]

\* The Service EnsureFuncService synthesizes.
ServiceOf(fn) ==
    [labels |-> fn.labels, selector |-> fn.labels, port |-> 8080]

\* getProvisionContainer: the init container that stages the code, and the
\* dependency manifest when the registry holds the runtime.
getProvisionContainer(fn) ==
    [name |-> "prepare", copiesDeps |-> fn.spec.runtime \in RegisteredRuntimes]

\* DeploymentError without the error for dependencies that cannot be built.
DeploymentError_ImageOnly(fn) ==
    /\ fn.spec.deployment.image = ""
    /\ fn.spec.runtime \notin RegisteredRuntimes

\* EnsureFuncDeployment returns an error before it sends a request: the
\* dependencies cannot be built, or no image is given and none resolves.
DeploymentError(fn) ==
    \/ DepsUnresolvable(fn)
    \/ /\ fn.spec.deployment.image = ""
       /\ fn.spec.runtime \notin RegisteredRuntimes

\* The Deployment EnsureFuncDeployment synthesizes.
DeploymentOf(fn) ==
    [labels |-> fn.labels,
     annotations |-> fn.spec.deployment.annotations,
     replicas |-> fn.spec.deployment.replicas,
     image |-> IF fn.spec.deployment.image # ""
               THEN fn.spec.deployment.image
               ELSE FunctionImage(fn.spec.runtime),
     env |-> ("FUNC_HANDLER" :> splitHandler[fn.spec.handler][2])
             @@ ("MOD_NAME" :> splitHandler[fn.spec.handler][1])
             @@ ("FUNC_TIMEOUT" :> IF fn.spec.timeout = "" THEN "180"
                                  ELSE fn.spec.timeout)
             @@ ("FUNC_RUNTIME" :> fn.spec.runtime),
     initContainers |->
         (IF fn.spec.function # "" THEN <<getProvisionContainer(fn)>>
          ELSE <<>>)
         \o (IF fn.spec.deps # ""
             THEN <<[name |-> "install", copiesDeps |-> FALSE]>>
             ELSE <<>>)]

\* The event ids EnsureCronJob may write into the event headers of the
\* CronJob's container arguments: each is made from the time of the call.
EventIds ==
    {"cronjob-controller-2018-03-05T05:55:41.990784027Z",
     "cronjob-controller-2018-03-05T05:55:42.990784027Z"}

\* The CronJob EnsureCronJob synthesizes for the trigger of the Function,
\* at a time that gives the event id.
CronJobOf(fn, eventId) ==
    [schedule |-> "*/10 * * * *",
     args |-> <<"curl", "-Lv", "event-id: " \o eventId,
                "http://func1.default.svc.cluster.local:8080">>,
     activeDeadlineSeconds |-> IF fn.spec.timeout = "" THEN "180"
                               ELSE fn.spec.timeout,
     successfulJobsHistoryLimit |-> 3,
     failedJobsHistoryLimit |-> 1]

\* The kinds the functions above apply.
Kinds ==
    {"ConfigMap", "Service", "Deployment", "CronJob"}

\* A clientset that holds nothing: per kind the stored object (none or
\* one, with its resource version) and the requests it has answered.
NoClientset ==
    [objects |-> [kd \in Kinds |-> {}], actions |-> <<>>, rvNext |-> 1]

\* No call made.
NoOut ==
    [call |-> "", err |-> "", val |-> {}]

\* The controller's own specifications make no such call.
UtilIdle ==
    /\ clientset = NoClientset
    /\ config = NoDeployment
    /\ out = NoOut

\* The stored object of a kind that holds one.
Stored(cs, kd) ==
    CHOOSE o \in cs.objects[kd] : TRUE

\* The answers of the API server to create, get and update.  An update
\* that names a resource version is refused unless it is the stored one.
Create(cs, kd, obj) ==
    LET logged == [cs EXCEPT !.actions = Append(@, <<"create", kd, 0>>)]
    IN  IF cs.objects[kd] # {}
        THEN [cs |-> logged, err |-> "AlreadyExists"]
        ELSE [cs |-> [logged EXCEPT
                         !.objects[kd] = {[rv |-> cs.rvNext, obj |-> obj]},
                         !.rvNext = @ + 1],
              err |-> "ok"]

Update(cs, kd, rv, obj) ==
    LET logged == [cs EXCEPT !.actions = Append(@, <<"update", kd, rv>>)]
    IN  IF cs.objects[kd] = {}
        THEN [cs |-> logged, err |-> "NotFound"]
        ELSE IF rv # 0 /\ rv # Stored(cs, kd).rv
             THEN [cs |-> logged, err |-> "Conflict"]
             ELSE [cs |-> [logged EXCEPT
                              !.objects[kd] = {[rv |-> cs.rvNext,
                                                obj |-> obj]},
                              !.rvNext = @ + 1],
                   err |-> "ok"]

\* CreateOrUpdate returning the already-exists answer of the create.
CreateOrUpdate_CreateOnly(cs, kd, obj) ==
    Create(cs, kd, obj)

\* Create, and on already-exists get the stored object and update it with
\* the synthesized object under the stored resource version.
CreateOrUpdate(cs, kd, obj) ==
    LET created == Create(cs, kd, obj)
    IN  IF created.err # "AlreadyExists"
        THEN created
        ELSE LET got == [created.cs EXCEPT
                            !.actions = Append(@, <<"get", kd, 0>>)]
             IN  Update(got, kd, Stored(got, kd).rv, obj)

\* ------------------------------------------------------------ specification
Init ==
    /\ smclient \in BOOLEAN
    /\ api = [k \in Keys |-> NoObj]
    /\ res = [k \in Keys |-> [r \in Owned |-> FALSE]]
    /\ removed = [k \in Keys |-> FALSE]
    /\ rvNext = 1
    /\ nops = 0
    /\ watch = <<>>
    /\ cache = [k \in Keys |-> NoObj]
    /\ wq = NewRateLimitingQueue
    /\ pc = "idle"
    /\ key = ""
    /\ funcObj = NoObj
    /\ att = NoAttempt
    /\ reported = {}
    /\ stopCh = FALSE
    /\ run = "working"
    /\ UtilIdle

Next ==
    \/ \E k \in Keys, hpa \in HPAChoices : UserCreate(k, hpa)
    \/ \E k \in Keys, hpa \in HPAChoices : UserEdit(k, hpa)
    \/ \E k \in Keys, foreground \in BOOLEAN : UserDelete(k, foreground)
    \/ \E k \in Keys : GarbageCollect(k)
    \/ DeliverAdded
    \/ DeliverModified
    \/ DeliverDeleted
    \/ \E k \in Keys : WaitElapsed(k)
    \/ GetItem
    \/ Lookup
    \/ DeleteDeployment
    \/ DeleteService
    \/ DeleteConfigMap
    \/ DeleteServiceMonitor
    \/ DeleteAutoscale
    \/ RemoveFinalizer
    \/ AddFinalizer
    \/ EnsurePrepare
    \/ EnsureFuncConfigMap
    \/ EnsureFuncService
    \/ EnsureFuncDeployment
    \/ SetAutoscalerOwner
    \/ CreateServiceMonitor
    \/ CreateAutoscale
    \/ Finish

Spec ==
    Init /\ [][Next]_vars

\* ------------------------------------------------------- Run and its stop
\* cache.WaitForCacheSync returns true: Run goes on to wait.Until.
CacheSynced ==
    /\ run = "syncing"
    /\ ~stopCh
    /\ run' = "until"
    /\ UNCHANGED <<utilVars, smclient, stopCh, reported, clusterVars, nops,
                   cache, wq, workerVars>>

\* wait.Until finds the stop channel open and calls c.runWorker, in the
\* goroutine of Run.
StartWorker ==
    /\ run = "until"
    /\ ~stopCh
    /\ run' = "working"
    /\ UNCHANGED <<utilVars, smclient, stopCh, reported, clusterVars, nops,
                   cache, wq, workerVars>>

\* The stop channel is closed.
StopSignal ==
    /\ ~stopCh
    /\ run # "returned"
    /\ stopCh' = TRUE
    /\ UNCHANGED <<utilVars, smclient, run, reported, clusterVars, nops,
                   cache, wq, workerVars>>

\* Run can return: WaitForCacheSync was stopped, or wait.Until finds the
\* stop channel closed before it calls runWorker or after runWorker has
\* returned.
RunCanReturn ==
    /\ stopCh
    /\ \/ run \in {"syncing", "until"}
       \/ run = "working" /\ pc = "exited"

\* Run returns and its deferred c.queue.ShutDown() runs.
RunReturn ==
    /\ RunCanReturn
    /\ run' = "returned"
    /\ wq' = ShutDown(wq)
    /\ UNCHANGED <<utilVars, smclient, stopCh, reported, clusterVars, nops,
                   cache, workerVars>>

\* Run from its start: the informer runs, the caches are not synced yet.
RunInit ==
    /\ smclient \in BOOLEAN
    /\ api = [k \in Keys |-> NoObj]
    /\ res = [k \in Keys |-> [r \in Owned |-> FALSE]]
    /\ removed = [k \in Keys |-> FALSE]
    /\ rvNext = 1
    /\ nops = 0
    /\ watch = <<>>
    /\ cache = [k \in Keys |-> NoObj]
    /\ wq = NewRateLimitingQueue
    /\ pc = "idle"
    /\ key = ""
    /\ funcObj = NoObj
    /\ att = NoAttempt
    /\ reported = {}
    /\ stopCh = FALSE
    /\ run = "syncing"
    /\ UtilIdle

RunNext ==
    \/ Next
    \/ CacheSynced
    \/ StartWorker
    \/ StopSignal
    \/ RunReturn

\* The goroutines of the process keep running while they can take a step.
RunSpec ==
    RunInit /\ [][RunNext]_vars /\ WF_vars(RunNext)

\* ------------------------------------------------- two Functions at once
\* The keys of two Functions that exist when the controller starts.
PoolKeys ==
    {"default/f", "default/g"}

\* The stored Function of key k: created by a user, never processed.
PoolStored(k) ==
    [NoObj EXCEPT !.exists = TRUE,
                  !.rv = IF k = "default/f" THEN 1 ELSE 2]

\* The controller starts on a cluster that holds both Functions: the
\* informer's first list delivers an Add event for each, and the users send
\* nothing further.  No monitor client is configured.
PoolInit ==
    /\ smclient = FALSE
    /\ api = [k \in PoolKeys |-> PoolStored(k)]
    /\ res = [k \in PoolKeys |-> [r \in Owned |-> FALSE]]
    /\ removed = [k \in PoolKeys |-> FALSE]
    /\ rvNext = 3
    /\ nops = MaxOps
    /\ watch \in { <<Event("Added", "default/f", PoolStored("default/f")),
                      Event("Added", "default/g", PoolStored("default/g"))>>,
                    <<Event("Added", "default/g", PoolStored("default/g")),
                      Event("Added", "default/f", PoolStored("default/f"))>> }
    /\ cache = [k \in PoolKeys |-> NoObj]
    /\ wq = [NewRateLimitingQueue EXCEPT
                 !.failures = [k \in PoolKeys |-> 0]]
    /\ pc = "idle"
    /\ key = ""
    /\ funcObj = NoObj
    /\ att = NoAttempt
    /\ reported = {}
    /\ stopCh = FALSE
    /\ run = "working"
    /\ UtilIdle

\* The informer, the delaying queue and the one worker Run starts.
PoolNext ==
    \/ DeliverAdded
    \/ DeliverModified
    \/ \E k \in PoolKeys : WaitElapsed(k)
    \/ GetItem
    \/ Lookup
    \/ AddFinalizer
    \/ EnsurePrepare
    \/ EnsureFuncConfigMap
    \/ EnsureFuncService
    \/ EnsureFuncDeployment
    \/ DeleteAutoscale
    \/ Finish

PoolSpec ==
    PoolInit /\ [][PoolNext]_vars /\ WF_vars(PoolNext)

\* ------------------------------------- Functions that request dependencies
\* The runtimes and the dependency descriptors of the Functions below.
DepsRuntimes ==
    {"python2.7", "cobol"}

DepsDescriptors ==
    {"", "deps"}

\* A Function is stored, with or without dependencies, for a runtime of the
\* registry or for another, and its Added event is on its way; the users
\* have one request left.
DepsInit ==
    /\ smclient \in BOOLEAN
    /\ \E rt \in DepsRuntimes, d \in DepsDescriptors :
         LET stored == [NoObj EXCEPT !.exists = TRUE, !.rv = 1,
                                     !.spec.runtime = rt, !.spec.deps = d]
         IN  /\ api = [k \in Keys |-> stored]
             /\ watch = <<Event("Added", "default/f", stored)>>
    /\ res = [k \in Keys |-> [r \in Owned |-> FALSE]]
    /\ removed = [k \in Keys |-> FALSE]
    /\ rvNext = 2
    /\ nops = MaxOps - 1
    /\ cache = [k \in Keys |-> NoObj]
    /\ wq = NewRateLimitingQueue
    /\ pc = "idle"
    /\ key = ""
    /\ funcObj = NoObj
    /\ att = NoAttempt
    /\ reported = {}
    /\ stopCh = FALSE
    /\ run = "working"
    /\ UtilIdle

DepsNext ==
    \/ \E k \in Keys, hpa \in HPAChoices : UserEdit(k, hpa)
    \/ DeliverAdded
    \/ DeliverModified
    \/ \E k \in Keys : WaitElapsed(k)
    \/ GetItem
    \/ Lookup
    \/ AddFinalizer
    \/ EnsurePrepare
    \/ EnsureFuncConfigMap
    \/ EnsureFuncService
    \/ EnsureFuncDeployment
    \/ DeleteAutoscale
    \/ SetAutoscalerOwner
    \/ CreateServiceMonitor
    \/ CreateAutoscale
    \/ Finish

DepsSpec ==
    DepsInit /\ [][DepsNext]_vars

\* ------------------------------------------ the pkg/utils functions alone
\* The Deployment overrides of a Function and the configured Deployments:
\* each annotation of two set or not, replicas and image set or not.
AnnotationKeys ==
    {"foo1-deploy", "foo2-deploy"}

UtilDeployments(value, replicas, images) ==
    { [annotations |-> [k \in ks |-> value], replicas |-> r, image |-> i] :
        ks \in SUBSET AnnotationKeys, r \in {0, replicas}, i \in images }

\* The Functions the calls are made with.
UtilFunctions ==
    { [NoObj EXCEPT
          !.exists = TRUE, !.rv = 1,
          !.labels = ("foo" :> "bar"),
          !.spec.function = fc, !.spec.handler = h, !.spec.deps = d,
          !.spec.runtime = rt, !.spec.timeout = t, !.spec.deployment = dp] :
        fc \in {"", "function"}, h \in {"foo.bar", "foo2.bar2"},
        d \in DepsDescriptors, rt \in {"python2.7", "python3.4", "cobol"},
        t \in {"", "120"},
        dp \in UtilDeployments("user", 3, {"", "test-image"}) }

\* The Function whose objects a clientset may hold from an earlier call.
PreviousFunction ==
    [NoObj EXCEPT
        !.exists = TRUE, !.rv = 1,
        !.labels = ("foobar" :> "barfoo"),
        !.spec.function = "function0", !.spec.handler = "foo.bar2",
        !.spec.deps = "deps0", !.spec.runtime = "python2.7",
        !.spec.timeout = "10",
        !.spec.deployment = [NoDeployment EXCEPT
                                !.annotations = ("bar" :> "foo")]]

\* A clientset that holds the objects of PreviousFunction.
PreviousClientset ==
    [objects |->
        [kd \in Kinds |->
            {[rv |-> 123456,
              obj |-> CASE kd = "ConfigMap" -> ConfigMapOf(PreviousFunction)
                        [] kd = "Service" -> ServiceOf(PreviousFunction)
                        [] kd = "Deployment" -> DeploymentOf(PreviousFunction)
                        [] kd = "CronJob" ->
                             CronJobOf(PreviousFunction,
                                       "cronjob-controller-0")]}],
     actions |-> <<>>, rvNext |-> 123457]

\* A Function, a configured Deployment and a clientset, empty or not; one
\* call of a function of pkg/utils is about to be made.
UtilInit ==
    /\ smclient = FALSE
    /\ api = [k \in Keys |-> NoObj]
    /\ res = [k \in Keys |-> [r \in Owned |-> FALSE]]
    /\ removed = [k \in Keys |-> FALSE]
    /\ rvNext = 1
    /\ nops = 0
    /\ watch = <<>>
    /\ cache = [k \in Keys |-> NoObj]
    /\ wq = NewRateLimitingQueue
    /\ pc = "test"
    /\ key = ""
    /\ funcObj \in UtilFunctions
    /\ att = NoAttempt
    /\ reported = {}
    /\ stopCh = FALSE
    /\ run = "working"
    /\ clientset \in {NoClientset, PreviousClientset}
    /\ config \in UtilDeployments("default", 10, {""})
    /\ out = NoOut

\* The call returned err (and val): the test is over.
Returned(call, err, val) ==
    /\ out' = [call |-> call, err |-> err, val |-> val]
    /\ pc' = "tested"
    /\ UNCHANGED <<smclient, stopCh, run, reported, clusterVars, nops, cache,
                   wq, key, att>>

\* The call applied obj of kind kd to the clientset.
Applied(call, kd, obj) ==
    LET r == CreateOrUpdate(clientset, kd, obj)
    IN  /\ clientset' = r.cs
        /\ Returned(call, r.err, {})
        /\ UNCHANGED <<funcObj, config>>

TestEnsureConfigMap ==
    /\ pc = "test"
    /\ Applied("EnsureFuncConfigMap", "ConfigMap", ConfigMapOf(funcObj))

TestEnsureService ==
    /\ pc = "test"
    /\ Applied("EnsureFuncService", "Service", ServiceOf(funcObj))

TestEnsureDeployment ==
    /\ pc = "test"
    /\ IF DeploymentError(funcObj)
       THEN /\ Returned("EnsureFuncDeployment", "err", {})
            /\ UNCHANGED <<funcObj, config, clientset>>
       ELSE Applied("EnsureFuncDeployment", "Deployment",
                    DeploymentOf(funcObj))

TestEnsureCronJob ==
    /\ pc = "test"
    /\ \E eventId \in EventIds :
          Applied("EnsureCronJob", "CronJob", CronJobOf(funcObj, eventId))

TestGetProvisionContainer ==
    /\ pc = "test"
    /\ Returned("getProvisionContainer", "ok",
                {getProvisionContainer(funcObj)})
    /\ UNCHANGED <<funcObj, config, clientset>>

\* MergeDeployments writes the merge into its destination, here the
\* Function's Spec.Deployment as in ensureK8sResources.
TestMergeDeployments ==
    /\ pc = "test"
    /\ funcObj' = [funcObj EXCEPT
           !.spec.deployment = MergeDeployments(@, config)]
    /\ Returned("MergeDeployments", "ok", {})
    /\ UNCHANGED <<config, clientset>>

UtilNext ==
    \/ TestEnsureConfigMap
    \/ TestEnsureService
    \/ TestEnsureDeployment
    \/ TestEnsureCronJob
    \/ TestGetProvisionContainer
    \/ TestMergeDeployments

UtilSpec ==
    UtilInit /\ [][UtilNext]_vars

\* ------------------------------------------------- synthesis done twice
\* The kind a call applies.
KindOf(call) ==
    CASE call = "EnsureFuncConfigMap" -> "ConfigMap"
      [] call = "EnsureFuncService" -> "Service"
      [] call = "EnsureFuncDeployment" -> "Deployment"
      [] call = "EnsureCronJob" -> "CronJob"

\* The clientset holds nothing before the first call.
SynthInit ==
    /\ UtilInit
    /\ clientset = NoClientset

\* The call that succeeded is made once more, with the same Function,
\* registry and configuration, at a later time.
SynthesizeAgain ==
    /\ pc = "tested"
    /\ out.call \in {"EnsureFuncConfigMap", "EnsureFuncService",
                     "EnsureFuncDeployment", "EnsureCronJob"}
    /\ out.err = "ok"
    /\ \E eventId \in EventIds :
          LET kd == KindOf(out.call)
              obj == CASE kd = "ConfigMap" -> ConfigMapOf(funcObj)
                       [] kd = "Service" -> ServiceOf(funcObj)
                       [] kd = "Deployment" -> DeploymentOf(funcObj)
                       [] kd = "CronJob" -> CronJobOf(funcObj, eventId)
              r == CreateOrUpdate(clientset, kd, obj)
          IN  /\ clientset' = r.cs
              /\ out' = [out EXCEPT !.err = r.err]
    /\ pc' = "again"
    /\ UNCHANGED <<smclient, stopCh, run, reported, clusterVars, nops,
                   cache, wq, key, att, funcObj, config>>

SynthNext ==
    \/ TestEnsureConfigMap
    \/ TestEnsureService
    \/ TestEnsureDeployment
    \/ TestEnsureCronJob
    \/ SynthesizeAgain

SynthSpec ==
    SynthInit /\ [][SynthNext]_vars

\* --------------------------------------- a Function nobody writes again
\* A Function was created and its Added event is on its way; the users
\* send no further request, so every later event is of the controller's
\* own making.
AloneInit ==
    /\ smclient \in BOOLEAN
    /\ \E hpa \in HPAChoices :
         LET stored == [NoObj EXCEPT !.exists = TRUE, !.rv = 1,
                                     !.spec = UserSpec(hpa)]
         IN  /\ api = [k \in Keys |-> stored]
             /\ watch = <<Event("Added", "default/f", stored)>>
    /\ res = [k \in Keys |-> [r \in Owned |-> FALSE]]
    /\ removed = [k \in Keys |-> FALSE]
    /\ rvNext = 2
    /\ nops = MaxOps
    /\ cache = [k \in Keys |-> NoObj]
    /\ wq = NewRateLimitingQueue
    /\ pc = "idle"
    /\ key = ""
    /\ funcObj = NoObj
    /\ att = NoAttempt
    /\ reported = {}
    /\ stopCh = FALSE
    /\ run = "working"
    /\ UtilIdle

AloneNext ==
    \/ DeliverAdded
    \/ DeliverModified
    \/ \E k \in Keys : WaitElapsed(k)
    \/ GetItem
    \/ Lookup
    \/ AddFinalizer
    \/ EnsurePrepare
    \/ EnsureFuncConfigMap
    \/ EnsureFuncService
    \/ EnsureFuncDeployment
    \/ DeleteServiceMonitor
    \/ DeleteAutoscale
    \/ SetAutoscalerOwner
    \/ CreateServiceMonitor
    \/ CreateAutoscale
    \/ Finish

AloneSpec ==
    AloneInit /\ [][AloneNext]_vars /\ WF_vars(AloneNext)

\* ------------------------------------- events that meet a running attempt
\* A Function was created and its Added event is on its way; the users send
\* one more request, an edit or a deletion, at any moment of the worker's
\* attempts.  The goroutines are scheduled: the informer delivers, the
\* delaying queue's timers fire and the worker takes its steps as long as
\* there is one to take.
EventInit ==
    /\ smclient \in BOOLEAN
    /\ LET stored == [NoObj EXCEPT !.exists = TRUE, !.rv = 1,
                                   !.spec = UserSpec(NoHPA)]
       IN  /\ api = [k \in Keys |-> stored]
           /\ watch = <<Event("Added", "default/f", stored)>>
    /\ res = [k \in Keys |-> [r \in Owned |-> FALSE]]
    /\ removed = [k \in Keys |-> FALSE]
    /\ rvNext = 2
    /\ nops = MaxOps - 1
    /\ cache = [k \in Keys |-> NoObj]
    /\ wq = NewRateLimitingQueue
    /\ pc = "idle"
    /\ key = ""
    /\ funcObj = NoObj
    /\ att = NoAttempt
    /\ reported = {}
    /\ stopCh = FALSE
    /\ run = "working"
    /\ UtilIdle

EventNext ==
    \/ \E k \in Keys, hpa \in HPAChoices : UserEdit(k, hpa)
    \/ \E k \in Keys, foreground \in BOOLEAN : UserDelete(k, foreground)
    \/ \E k \in Keys : GarbageCollect(k)
    \/ DeliverAdded
    \/ DeliverModified
    \/ DeliverDeleted
    \/ \E k \in Keys : WaitElapsed(k)
    \/ GetItem
    \/ Lookup
    \/ DeleteDeployment
    \/ DeleteService
    \/ DeleteConfigMap
    \/ DeleteServiceMonitor
    \/ DeleteAutoscale
    \/ RemoveFinalizer
    \/ AddFinalizer
    \/ EnsurePrepare
    \/ EnsureFuncConfigMap
    \/ EnsureFuncService
    \/ EnsureFuncDeployment
    \/ SetAutoscalerOwner
    \/ CreateServiceMonitor
    \/ CreateAutoscale
    \/ Finish

EventSpec ==
    EventInit /\ [][EventNext]_vars /\ WF_vars(EventNext)

\* ----------------------------------------------- the update filter alone
\* The fields of a Function an update may change.
FilterFields ==
    {"function", "handler", "contentType", "deps", "timeout", "deployment",
     "hpa", "runtime", "checksum", "labels", "finalizers"}

\* The indexer's object before the update: active or marked for deletion,
\* as decoded or after ensureK8sResources wrote into it.
FilterOld(deleting, mutated) ==
    [exists |-> TRUE, dt |-> IF deleting THEN 1 ELSE 0, rv |-> 1,
     finalizers |-> {functionFinalizer},
     labels |-> mutated, status |-> "",
     spec |-> [UserSpec(NoHPA) EXCEPT
                  !.deployment = IF mutated THEN "merged" ELSE @]]

\* The object of the update event: a later version of old in which the
\* fields of ch have changed, freshly decoded.
FilterNew(old, ch, deleting) ==
    [exists |-> TRUE, dt |-> IF deleting THEN 2 ELSE 0, rv |-> 2,
     finalizers |-> IF "finalizers" \in ch
                    THEN old.finalizers \cup {foregroundFinalizer}
                    ELSE old.finalizers,
     labels |-> IF "labels" \in ch THEN ~old.labels ELSE old.labels,
     status |-> old.status,
     spec |-> [function |-> IF "function" \in ch THEN "code2"
                            ELSE old.spec.function,
               handler |-> IF "handler" \in ch THEN "foo.baz"
                           ELSE old.spec.handler,
               contentType |-> IF "contentType" \in ch THEN "base64"
                               ELSE old.spec.contentType,
               deps |-> IF "deps" \in ch THEN "requests" ELSE old.spec.deps,
               timeout |-> IF "timeout" \in ch THEN "10"
                           ELSE old.spec.timeout,
               deployment |-> IF "deployment" \in ch THEN "edited"
                              ELSE old.spec.deployment,
               hpa |-> IF "hpa" \in ch THEN HPAWith(<<"Resource">>)
                       ELSE old.spec.hpa,
               runtime |-> IF "runtime" \in ch THEN "python3.4"
                           ELSE old.spec.runtime,
               checksum |-> IF "checksum" \in ch THEN "sha256:2"
                            ELSE old.spec.checksum]]

\* The informer holds old and an update event carries new: a resync
\* redelivers the indexer's own object, a watch event carries a later version
\* (a deletion timestamp, once set, stays set).  funcObj keeps old for the
\* comparison with what the handler did.
FilterInit ==
    /\ smclient \in BOOLEAN
    /\ \E k \in Keys, deleting \in BOOLEAN, mutated \in BOOLEAN :
         LET old == FilterOld(deleting, mutated)
         IN  \E resync \in BOOLEAN, ch \in SUBSET FilterFields,
                deletingNew \in BOOLEAN :
                 LET new == IF resync THEN old
                            ELSE FilterNew(old, ch, deleting \/ deletingNew)
                 IN  /\ resync => (ch = {} /\ ~deletingNew)
                     /\ api = [j \in Keys |-> NoObj]
                     /\ cache = [j \in Keys |-> IF j = k THEN old ELSE NoObj]
                     /\ funcObj = old
                     /\ watch = <<[type |-> "Modified", key |-> k,
                                   obj |-> new]>>
    /\ res = [k \in Keys |-> [r \in Owned |-> FALSE]]
    /\ removed = [k \in Keys |-> FALSE]
    /\ rvNext = 3
    /\ nops = 0
    /\ wq = NewRateLimitingQueue
    /\ pc = "idle"
    /\ key = ""
    /\ att = NoAttempt
    /\ reported = {}
    /\ stopCh = FALSE
    /\ run = "working"
    /\ UtilIdle

FilterNext ==
    DeliverModified

FilterSpec ==
    FilterInit /\ [][FilterNext]_vars

\* ------------------------------------------------------------------ claims
\* The delete calls an attempt has issued have all been answered with
\* success or not-found.
Confirmed(rs) ==
    \A r \in rs : att.del[r] \in {"ok", "notfound"}

\* The attempt has issued no call of the cluster API.
NoCalls ==
    /\ \A r \in Owned : att.del[r] = "none" /\ att.app[r] = "none"
    /\ att.fin = "none"

\* C1, as stated: on the deletion path the finalizer-removal call is issued
\* only after the delete calls for the Deployment, the Service, the
\* ConfigMap, the Monitor and the Autoscaler have all returned success or
\* not-found in the same attempt, and not at all once one of them returned
\* another error.
C1_RemovalAfterAllFiveDeletes ==
    att.path = "delete" =>
        /\ att.fin # "none" => Confirmed(Owned)
        /\ (\E r \in Owned : att.del[r] = "err") => att.fin = "none"

\* C1, amended: the same for the Deployment, the Service, the ConfigMap and
\* the Autoscaler, and for the Monitor when the monitor client is configured;
\* without a monitor client no Monitor delete is issued in the attempt.
C1_RemovalAfterIssuedDeletes ==
    att.path = "delete" =>
        /\ att.fin # "none" =>
              /\ Confirmed(Owned \ {"Monitor"})
              /\ IF smclient THEN Confirmed({"Monitor"})
                 ELSE att.del["Monitor"] = "none"
        /\ (\E r \in Owned : att.del[r] = "err") => att.fin = "none"

\* C1 witness: the finalizer was removed after five answered deletes, some
\* with success and some with not-found.
C1_Witness ==
    /\ att.path = "delete"
    /\ att.fin = "ok"
    /\ smclient
    /\ att.del["Deployment"] = "ok"
    /\ att.del["Monitor"] = "notfound"

\* C2: whenever an owned resource of a Function exists in the cluster, the
\* Function object exists in the cluster and carries the controller's
\* finalizer.
C2_ResourcesImplyFinalizer ==
    \A k \in Keys : \A r \in Owned :
        res[k][r] =>
            /\ api[k].exists
            /\ FunctionObjHasFinalizer(api[k], functionFinalizer)

\* C2 witness: the deletion of a Function has been requested while its
\* Deployment and its Autoscaler exist.
C2_Witness ==
    \E k \in Keys :
        /\ res[k]["Deployment"]
        /\ res[k]["Autoscaler"]
        /\ api[k].dt # 0

C4_NoStuckFinalizer ==
    \A k \in Keys :
        ~ /\ api[k].exists
          /\ api[k].dt # 0
          /\ FunctionObjHasFinalizer(api[k], functionFinalizer)
          /\ pc = "idle"
          /\ watch = <<>>
          /\ wq.queue = <<>>
          /\ wq.dirty = {}
          /\ wq.waiting = {}

\* C5: on the deletion path not-found counts as success: when no delete of
\* the attempt was answered with another error and the finalizer update did
\* not fail, the attempt returns no error and has removed the finalizer.
C5_NotFoundIsSuccess ==
    (/\ pc = "ret"
     /\ att.path = "delete"
     /\ \A r \in Owned : att.del[r] # "err"
     /\ att.fin # "err") =>
            /\ att.ret = "ok"
            /\ att.fin = "ok"
            /\ ~ /\ api[key].exists
                 /\ FunctionObjHasFinalizer(api[key], functionFinalizer)

\* C5 witness: a deletion attempt returned success with the ConfigMap
\* deleted and the Deployment, the Service and the Autoscaler not found.
C5_Witness ==
    /\ pc = "ret"
    /\ att.path = "delete"
    /\ att.ret = "ok"
    /\ att.del["Deployment"] = "notfound"
    /\ att.del["Service"] = "notfound"
    /\ att.del["ConfigMap"] = "ok"
    /\ att.del["Autoscaler"] = "notfound"

\* C6: processing a key whose cached Function has the deletion timestamp
\* set and does not carry the finalizer issues no call of the cluster API
\* and returns success.
C6_ProcessedDeletionIsNoOp ==
    att.path = "deleted" => pc = "ret" /\ att.ret = "ok" /\ NoCalls

\* C6 witness: such an attempt has returned, for a Function that still
\* exists in the cluster.
C6_Witness ==
    /\ pc = "ret"
    /\ att.path = "deleted"
    /\ api[key].exists

\* C7: processing a key whose Function is absent from the cache issues no
\* call of the cluster API and returns success, and the key is not re-queued
\* by the controller: after the attempt the key waits for a backoff only if
\* it did before, and is queued only if an event marked it dirty meanwhile.
C7_GoneIsNoOp ==
    att.path = "gone" =>
        /\ pc = "ret" /\ att.ret = "ok" /\ NoCalls
        /\ LET q == Done(HandleResult(wq, key, att.ret), key)
           IN  /\ q.waiting = wq.waiting
               /\ (\E i \in 1..Len(q.queue) : q.queue[i] = key)
                      => key \in wq.dirty

\* C7 witness: such an attempt has returned with the Function absent from
\* the cluster too and nothing else pending.
C7_Witness ==
    /\ pc = "ret"
    /\ att.path = "gone"
    /\ ~api[key].exists
    /\ wq.dirty = {}

\* C8: for an active Function without the finalizer, an owned resource is
\* created or updated only after the finalizer has been persisted on the
\* Function object of the cluster; when persisting it fails the attempt
\* returns an error and has created or updated no owned resource.
C8_FinalizerBeforeResources ==
    (att.path = "ensure"
        /\ ~FunctionObjHasFinalizer(funcObj, functionFinalizer)) =>
        /\ (\E r \in Owned : att.app[r] # "none" \/ att.del[r] # "none") =>
              /\ att.fin = "ok"
              /\ api[key].exists
              /\ FunctionObjHasFinalizer(api[key], functionFinalizer)
        /\ att.fin = "err" =>
              /\ pc = "ret"
              /\ att.ret = "err"
              /\ \A r \in Owned : att.app[r] = "none" /\ att.del[r] = "none"

\* C8 witness: the ConfigMap was applied in an attempt that first persisted
\* the finalizer.
C8_Witness ==
    /\ att.path = "ensure"
    /\ ~FunctionObjHasFinalizer(funcObj, functionFinalizer)
    /\ att.fin = "ok"
    /\ att.app["ConfigMap"] = "ok"

\* C9: after a processing attempt of an active Function returned success,
\* the cluster holds the Function's ConfigMap, Service and Deployment, and
\* holds its Autoscaler exactly when the spec declares an autoscaler.
C9_EnsuredResourcesExist ==
    (pc = "ret" /\ att.path = "ensure" /\ att.ret = "ok") =>
        /\ res[key]["ConfigMap"]
        /\ res[key]["Service"]
        /\ res[key]["Deployment"]
        /\ res[key]["Autoscaler"] <=> AutoscalerDeclared(funcObj)

\* C9 witness: a successful attempt for a spec that declares an autoscaler.
C9_Witness ==
    /\ pc = "ret"
    /\ att.path = "ensure"
    /\ att.ret = "ok"
    /\ AutoscalerDeclared(funcObj)

\* C10: an update that takes the autoscaler out of the spec of a Function
\* is enqueued, and a successful processing of a spec without an autoscaler
\* leaves neither the Autoscaler nor the Monitor in the cluster.
C10_AutoscalerRemoved ==
    /\ (watch # <<>> /\ Head(watch).type = "Modified"
          /\ pc # "crashed"
          /\ AutoscalerDeclared(cache[Head(watch).key])
          /\ ~AutoscalerDeclared(Head(watch).obj)) =>
            Head(watch).key \in
                UpdateFunc(wq, cache[Head(watch).key], Head(watch).obj,
                           Head(watch).key).dirty
    /\ (pc = "ret" /\ att.path = "ensure" /\ att.ret = "ok"
          /\ ~AutoscalerDeclared(funcObj)) =>
            ~res[key]["Autoscaler"] /\ ~res[key]["Monitor"]

\* C10 witness: a successful attempt for a spec without an autoscaler has
\* deleted the Monitor and the Autoscaler of the former spec.
C10_Witness ==
    /\ pc = "ret"
    /\ att.path = "ensure"
    /\ att.ret = "ok"
    /\ ~AutoscalerDeclared(funcObj)
    /\ att.del["Monitor"] = "ok"
    /\ att.del["Autoscaler"] = "ok"

\* C11, as stated: when the spec declares an autoscaler, an attempt that
\* reaches the creation of the Autoscaler has created the companion Monitor
\* if and only if the first metric of the autoscaler is of object type or of
\* external type.
C11_MonitorForObjectOrExternal ==
    (att.path = "ensure" /\ att.app["Autoscaler"] # "none") =>
        (att.app["Monitor"] = "ok" <=>
            funcObj.spec.hpa.metrics[1] \in {"Object", "External"})

\* C11, amended: a Monitor create is issued only for a declared autoscaler
\* whose first metric is of object type, and an attempt that reaches the
\* creation of the Autoscaler has created the Monitor if and only if the
\* first metric is of object type; an external first metric creates none.
C11_MonitorForObjectOnly ==
    att.path = "ensure" =>
        /\ att.app["Monitor"] # "none" =>
              /\ AutoscalerDeclared(funcObj)
              /\ Len(funcObj.spec.hpa.metrics) > 0
              /\ funcObj.spec.hpa.metrics[1] = "Object"
        /\ att.app["Autoscaler"] # "none" =>
              (att.app["Monitor"] = "ok" <=>
                  funcObj.spec.hpa.metrics[1] = "Object")

\* C11 witness: the Autoscaler of a spec whose first metric is external was
\* created in an attempt that issued no Monitor create.
C11_Witness ==
    /\ att.path = "ensure"
    /\ att.app["Autoscaler"] = "ok"
    /\ Len(funcObj.spec.hpa.metrics) > 0
    /\ funcObj.spec.hpa.metrics[1] = "External"
    /\ att.app["Monitor"] = "none"

\* One of the fields the filter names differs between old and new: source
\* code, handler, content type, dependency descriptor, timeout, deployment
\* overrides, autoscaler overrides.
C12_FilteredFieldDiffers(old, new) ==
    \/ old.spec.function # new.spec.function
    \/ old.spec.handler # new.spec.handler
    \/ old.spec.contentType # new.spec.contentType
    \/ old.spec.deps # new.spec.deps
    \/ old.spec.timeout # new.spec.timeout
    \/ old.spec.deployment # new.spec.deployment
    \/ old.spec.hpa # new.spec.hpa

\* The informer delivers an Update event for a key that is not pending.
C12_UpdateDelivered ==
    /\ watch # <<>>
    /\ Head(watch).type = "Modified"
    /\ watch' = Tail(watch)
    /\ Head(watch).key \notin wq.dirty

\* C12, as stated: an Update event (old, new) enqueues the key if and only if
\* the deletion timestamp went from unset to set (or back) between old and
\* new, or one of the filtered fields differs; an update that changes only
\* the resource version or another field is not enqueued.
C12_EnqueuedIffTransitionOrFields ==
    [][C12_UpdateDelivered =>
          LET old == cache[Head(watch).key]
              new == Head(watch).obj
          IN  Head(watch).key \in wq'.dirty <=>
                  \/ (old.dt = 0) # (new.dt = 0)
                  \/ C12_FilteredFieldDiffers(old, new)]_vars

\* C12, amended: an Update event (old, new) enqueues the key if and only if
\* the deletion timestamps of old and new are different references (it went
\* from unset to set, or it is set on both and new is another object than
\* old, whatever else changed), or one of the filtered fields differs.
C12_EnqueuedIffPointerOrFields ==
    [][C12_UpdateDelivered =>
          LET old == cache[Head(watch).key]
              new == Head(watch).obj
          IN  Head(watch).key \in wq'.dirty <=>
                  \/ old.dt # new.dt
                  \/ C12_FilteredFieldDiffers(old, new)]_vars

\* C12 witness: the update of a Function that is being deleted changed only
\* its finalizers and its labels, and the handler has enqueued the key.
C12_Witness ==
    \E k \in Keys :
        /\ watch = <<>>
        /\ k \in wq.dirty
        /\ funcObj.dt # 0
        /\ cache[k].dt # 0
        /\ cache[k].rv # funcObj.rv
        /\ cache[k].spec = funcObj.spec
        /\ cache[k].finalizers # funcObj.finalizers

C14_AddAndDeleteAlwaysEnqueue ==
    [][/\ (/\ watch # <<>>
           /\ watch' = Tail(watch)
           /\ Head(watch).type \in {"Added", "Deleted"})
          => /\ Head(watch).key \in wq'.dirty
             /\ Head(watch).type = "Deleted"
                   => ~cache'[Head(watch).key].exists
       /\ (pc = "lookup" /\ pc' # "lookup" /\ ~cache[key].exists)
          => (att'.path = "gone" /\ pc' = "ret" /\ att'.ret = "ok")]_vars

\* C14 witness: the Function left the cluster after the controller removed
\* its finalizer, the Delete event emptied the indexer, and the worker has
\* processed the key once more and found the object gone.
C14_Witness ==
    /\ pc = "ret"
    /\ att.path = "gone"
    /\ removed[key]
    /\ ~api[key].exists
    /\ watch = <<>>

\* C15: in every reachable state the work queue holds at most one pending
\* entry per Function key, however many Add, Update and Delete events and
\* rate-limited re-adds for the key arrived before a worker took it; every
\* pending entry is a key marked dirty.
C15_OnePendingEntryPerKey ==
    /\ \A k \in Keys :
          Cardinality({i \in 1..Len(wq.queue) : wq.queue[i] = k}) <= 1
    /\ \A i \in 1..Len(wq.queue) : wq.queue[i] \in wq.dirty

\* C15 witness: the key is pending after an earlier attempt failed, its
\* rate-limited re-add is due and a further event for it is about to be
\* handled.
C15_Witness ==
    \E k \in Keys :
        /\ wq.queue = <<k>>
        /\ k \in wq.waiting
        /\ wq.failures[k] > 0
        /\ watch # <<>>
        /\ Head(watch).key = k
        /\ Head(watch).type = "Deleted"

\* C16: while a worker holds a key (between its Get and its Done) the key is
\* not in the queue, so no other Get can return it; events that arrive for
\* it meanwhile only mark it dirty.
C16_NoConcurrentAttempts ==
    /\ \A k \in wq.processing :
          \A i \in 1..Len(wq.queue) : wq.queue[i] # k
    /\ wq.processing = IF pc \in {"idle", "crashed"} THEN {} ELSE {key}

\* C16 witness: an event arrived for the key while the worker was applying
\* its resources; the key is dirty and not in the queue.
C16_Witness ==
    /\ pc = "ensureDeployment"
    /\ key \in wq.processing
    /\ key \in wq.dirty
    /\ wq.queue = <<>>

\* processNextItem finishes an attempt in which processItem returned an
\* error.
C17_FailedAttemptFinishes ==
    /\ pc = "ret"
    /\ pc' = "idle"
    /\ att.ret = "err"

\* C17: a failed attempt re-queues its key with backoff (one more recorded
\* requeue, the key waiting for its delay) if and only if the key's recorded
\* requeue count is below 5; otherwise the recorded count is cleared, the
\* error is handed to the error reporter, and the controller does not re-add
\* the key (it is pending afterwards only if an event marked it dirty
\* during the attempt).
C17_RequeueBelowCeiling ==
    [][C17_FailedAttemptFinishes =>
          IF wq.failures[key] < 5
          THEN /\ key \in wq'.waiting
               /\ wq'.failures[key] = wq.failures[key] + 1
               /\ reported' = {}
          ELSE /\ wq'.failures[key] = 0
               /\ reported' = {key}
               /\ wq'.waiting = wq.waiting
               /\ (\E i \in 1..Len(wq'.queue) : wq'.queue[i] = key)
                     <=> key \in wq.dirty]_vars

\* C17 witness: the key of a Function whose deletion is pending has been
\* given up: its error was reported, its requeue count is cleared and it is
\* neither queued nor waiting.
C17_Witness ==
    \E k \in Keys :
        /\ pc = "idle"
        /\ reported = {k}
        /\ wq.failures[k] = 0
        /\ wq.queue = <<>>
        /\ k \notin wq.waiting
        /\ api[k].exists
        /\ api[k].dt # 0

\* C18: after a key has been dropped at the retry ceiling and before it is
\* processed again, the queue does not add it on its own: it becomes
\* pending again only through a new Add, Update or Delete event.
C18_DroppedKeyOnlyEventsReAdd ==
    [][\A k \in Keys :
          (pc = "idle" /\ reported = {k})
              => ~(k \in wq.waiting /\ k \notin wq'.waiting)]_vars

\* C19: work that was lost because its key was dropped at the retry ceiling
\* is carried out again on the next resync of the Function: while the key
\* of a dropped attempt is not pending, the Update event of a resync (the
\* indexer's object as old and as new) makes it pending.
C19_ResyncRedrivesDroppedKey ==
    \A k \in Keys :
        (/\ pc = "idle"
         /\ reported = {k}
         /\ cache[k].exists
         /\ k \notin wq.dirty
         /\ k \notin wq.waiting)
            => k \in UpdateFunc(wq, cache[k], cache[k], k).dirty

\* C20: every ensure attempt, also the one that follows an attempt that
\* failed part-way, applies the owned resources from the ConfigMap on: a
\* resource is applied only after the ones before it were applied in the
\* same attempt.  An attempt that failed after applying something leaves
\* the Function with its finalizer, and between attempts the worker keeps
\* nothing of the attempt.
C20_EveryAttemptStartsAtConfigMap ==
    /\ att.path = "ensure" =>
          /\ att.app["Service"] # "none" => att.app["ConfigMap"] = "ok"
          /\ att.app["Deployment"] # "none" => att.app["Service"] = "ok"
          /\ (\/ att.app["Monitor"] # "none"
              \/ att.app["Autoscaler"] # "none"
              \/ att.del["Monitor"] # "none"
              \/ att.del["Autoscaler"] # "none")
                => att.app["Deployment"] = "ok"
          /\ (/\ pc = "ret"
              /\ att.ret = "err"
              /\ \E r \in Owned : att.app[r] = "ok")
                => /\ api[key].exists
                   /\ FunctionObjHasFinalizer(api[key], functionFinalizer)
    /\ pc = "idle" => (att = NoAttempt /\ funcObj = NoObj /\ key = "")
    /\ pc = "lookup" => att = NoAttempt

\* C20 witness: an earlier attempt applied the ConfigMap and the Service
\* and failed at the Deployment; the next attempt has applied the ConfigMap
\* again and is about to apply the Service, which the cluster already holds.
C20_Witness ==
    /\ pc = "ensureSvc"
    /\ att.app["ConfigMap"] = "ok"
    /\ wq.failures[key] > 0
    /\ res[key]["Service"]
    /\ ~res[key]["Deployment"]
    /\ api[key].dt = 0

\* The owned resources a successful processing of obj leaves in the cluster.
C21_Desired(obj) ==
    [r \in Owned |->
        CASE r \in {"ConfigMap", "Service", "Deployment"} -> TRUE
          [] r = "Autoscaler" -> AutoscalerDeclared(obj)
          [] r = "Monitor" ->
                /\ AutoscalerDeclared(obj)
                /\ Len(obj.spec.hpa.metrics) > 0
                /\ obj.spec.hpa.metrics[1] = "Object"]

C22_WorkerLeavesCacheAlone ==
    [][pc' # pc => cache' = cache]_vars

\* C23: after the stop signal is raised the controller terminates: the
\* queue is shut down, the worker leaves its loop and Run returns (or the
\* process has ended in a panic before), also when the worker is blocked on
\* the empty queue at the time of the signal.
C23_StopTerminatesRun ==
    stopCh ~> (run = "returned" \/ pc = "crashed")

\* C24, as stated: distinct keys are processed in parallel: with two
\* Functions to process, a state is reached in which both keys are in
\* processing at once.
C24_TwoKeysInProcessing ==
    <>(Cardinality(wq.processing) >= 2)

\* C24, amended: the keys are processed by the one worker that Run starts,
\* one after the other: in every reachable state at most one key is in
\* processing, and while the worker processes a key the other keys wait in
\* the queue.
C24_OneKeyAtATime ==
    /\ Cardinality(wq.processing) <= 1
    /\ pc \notin {"idle", "crashed", "exited"} => wq.processing = {key}

\* C24 witness: the worker is applying the resources of one Function while
\* the key of the other one waits in the queue.
C24_Witness ==
    /\ pc = "ensureSvc"
    /\ wq.processing = {key}
    /\ \E k \in PoolKeys : k # key /\ wq.queue = <<k>>

\* C25: when the processing of a Function fails with a permanent spec error
\* (its dependencies are requested against a runtime the registry does not
\* hold), the error is recorded on the status of the Function object: once
\* processItem has returned that error, the stored object carries it.
C25_PermanentErrorOnStatus ==
    (/\ pc = "ret"
     /\ att.path = "ensure"
     /\ att.app["Deployment"] = "err"
     /\ DepsUnresolvable(funcObj)
     /\ api[key].exists)
        => api[key].status # ""

\* C29: ensuring the Deployment of a Function that requests dependencies
\* against a runtime the registry does not hold returns an error and
\* creates no Deployment; processItem returns that error, and
\* processNextItem takes the key through the retry path: a rate-limited
\* re-add that counts the failure, or, at the ceiling, the drop with the
\* error handed to HandleError.
C29_UnregisteredDepsFailAndRetry ==
    [][/\ (/\ pc = "ensureDeployment"
           /\ pc' # pc
           /\ funcObj.spec.deps # ""
           /\ funcObj.spec.runtime \notin RegisteredRuntimes)
          => /\ res' = res
             /\ pc' = "ret"
             /\ att'.app["Deployment"] = "err"
             /\ att'.ret = "err"
       /\ (/\ pc = "ret"
           /\ pc' = "idle"
           /\ att.app["Deployment"] = "err")
          => IF wq.failures[key] < maxRetries
             THEN /\ key \in wq'.waiting
                  /\ wq'.failures[key] = wq.failures[key] + 1
                  /\ reported' = {}
             ELSE /\ wq'.failures[key] = 0
                  /\ wq'.waiting = wq.waiting
                  /\ reported' = {key}]_vars

\* C29 witness: the first attempt on a Function with dependencies for the
\* runtime cobol ensured the ConfigMap and the Service, failed at the
\* Deployment, and its key waits for the rate-limited re-add.
C29_Witness ==
    /\ pc = "idle"
    /\ wq.failures["default/f"] = 1
    /\ "default/f" \in wq.waiting
    /\ api["default/f"].spec.deps = "deps"
    /\ api["default/f"].spec.runtime = "cobol"
    /\ res["default/f"]["ConfigMap"]
    /\ res["default/f"]["Service"]
    /\ ~res["default/f"]["Deployment"]

\* C26: the applier is create-or-update for each kind (ConfigMap, Service,
\* Deployment, CronJob): when the create is answered already-exists, the
\* stored object is fetched and one update is sent that carries the
\* synthesized object under the stored object's resource version; the call
\* returns no error and the stored object is then the one synthesized from
\* the new spec (the ConfigMap's data, the Service's labels, the
\* Deployment's env and annotations, the CronJob), under a new resource
\* version.
C26_CreateOrUpdate ==
    [][(/\ pc = "test"
        /\ clientset'.actions # <<>>
        /\ clientset.objects[clientset'.actions[1][2]] # {})
          => LET kd == clientset'.actions[1][2]
                 before == Stored(clientset, kd)
                 after == Stored(clientset', kd)
             IN  /\ clientset'.actions =
                       << <<"create", kd, 0>>, <<"get", kd, 0>>,
                          <<"update", kd, before.rv>> >>
                 /\ out'.err = "ok"
                 /\ clientset'.objects[kd] # {}
                 /\ after.rv # before.rv
                 /\ kd = "ConfigMap" =>
                       /\ after.obj = ConfigMapOf(funcObj)
                       /\ after.obj.data["handler"] = funcObj.spec.handler
                 /\ kd = "Service" =>
                       /\ after.obj = ServiceOf(funcObj)
                       /\ after.obj.labels = funcObj.labels
                 /\ kd = "Deployment" =>
                       /\ after.obj = DeploymentOf(funcObj)
                       /\ after.obj.annotations =
                             funcObj.spec.deployment.annotations
                       /\ after.obj.env["FUNC_HANDLER"] =
                             splitHandler[funcObj.spec.handler][2]
                 /\ kd = "CronJob" =>
                       \E eventId \in EventIds :
                           after.obj = CronJobOf(funcObj, eventId)
                 /\ \A other \in Kinds \ {kd} :
                       clientset'.objects[other] = clientset.objects[other]
      ]_vars

\* C26 witness: EnsureCronJob was called against a clientset that held the
\* CronJob of an earlier spec under resource version 123456; the update
\* carried that version and the stored CronJob is the new one.
C26_Witness ==
    /\ pc = "tested"
    /\ out.call = "EnsureCronJob"
    /\ out.err = "ok"
    /\ Len(clientset.actions) = 3
    /\ clientset.actions[3] = <<"update", "CronJob", 123456>>
    /\ Stored(clientset, "CronJob").obj \in
          {CronJobOf(funcObj, eventId) : eventId \in EventIds}
    /\ Stored(clientset, "CronJob").obj.activeDeadlineSeconds # "10"

\* C27 as claimed: the Data of the ConfigMap EnsureFuncConfigMap stores
\* always holds the handler entry and the code entry, keyed by the module
\* name plus the runtime's file extension (the module name alone for a
\* runtime the registry does not hold); it holds a dependency-manifest
\* entry if and only if the dependency descriptor is non-empty and the
\* runtime is registered; the call never fails for an unregistered runtime.
C27_ManifestIffDepsGivenAndRegistered ==
    (pc = "tested" /\ out.call = "EnsureFuncConfigMap")
        => LET data == Stored(clientset, "ConfigMap").obj.data
               mod == splitHandler[funcObj.spec.handler][1]
               registered == funcObj.spec.runtime \in RegisteredRuntimes
               codeKey == IF registered THEN mod \o ".py" ELSE mod
           IN  /\ out.err = "ok"
               /\ "handler" \in DOMAIN data
               /\ data["handler"] = funcObj.spec.handler
               /\ codeKey \in DOMAIN data
               /\ data[codeKey] = funcObj.spec.function
               /\ "requirements.txt" \in DOMAIN data
                     <=> (funcObj.spec.deps # "" /\ registered)

\* C27: the Data of the ConfigMap EnsureFuncConfigMap stores always holds
\* the handler entry and the code entry, keyed by the module name plus the
\* runtime's file extension (the module name alone for a runtime the
\* registry does not hold), and nothing else but the dependency-manifest
\* entry; it holds that entry if and only if the runtime is registered,
\* with the dependency descriptor as its value, empty or not; the call
\* never fails for an unregistered runtime.
C27_ManifestIffRegistered ==
    (pc = "tested" /\ out.call = "EnsureFuncConfigMap")
        => LET data == Stored(clientset, "ConfigMap").obj.data
               mod == splitHandler[funcObj.spec.handler][1]
               registered == funcObj.spec.runtime \in RegisteredRuntimes
               codeKey == IF registered THEN mod \o ".py" ELSE mod
           IN  /\ out.err = "ok"
               /\ "handler" \in DOMAIN data
               /\ data["handler"] = funcObj.spec.handler
               /\ codeKey \in DOMAIN data
               /\ data[codeKey] = funcObj.spec.function
               /\ "requirements.txt" \in DOMAIN data <=> registered
               /\ registered =>
                     data["requirements.txt"] = funcObj.spec.deps
               /\ DOMAIN data \subseteq
                     {"handler", codeKey, "requirements.txt"}

\* C27 witness: EnsureFuncConfigMap has stored the ConfigMap of a Function
\* for python3.4 without dependencies over the ConfigMap of an earlier
\* spec, and its Data holds an empty requirements.txt.
C27_Witness ==
    /\ pc = "tested"
    /\ out.call = "EnsureFuncConfigMap"
    /\ out.err = "ok"
    /\ funcObj.spec.runtime = "python3.4"
    /\ funcObj.spec.deps = ""
    /\ funcObj.spec.handler = "foo2.bar2"
    /\ Len(clientset.actions) = 3
    /\ Stored(clientset, "ConfigMap").obj.data =
          ("handler" :> "foo2.bar2") @@ ("foo2.py" :> funcObj.spec.function)
          @@ ("requirements.txt" :> "")

\* C28 as claimed: for a Function with a non-empty dependency descriptor
\* and a runtime the registry does not hold, EnsureFuncDeployment returns
\* no error and the Deployment it stores has no init container.
C28_DeploymentWithoutInitContainer ==
    (/\ pc = "tested"
     /\ out.call = "EnsureFuncDeployment"
     /\ funcObj.spec.deps # ""
     /\ funcObj.spec.runtime \notin RegisteredRuntimes)
        => /\ out.err = "ok"
           /\ clientset.objects["Deployment"] # {}
           /\ Stored(clientset, "Deployment").obj.initContainers = <<>>

\* C28: for a Function with a non-empty dependency descriptor and a
\* runtime the registry does not hold, the dependencies are skipped where
\* the code is staged and refused where they would be built:
\* getProvisionContainer returns the init container "prepare" without
\* error and without the copy of a dependency manifest, EnsureFuncConfigMap
\* stores a ConfigMap without a dependency entry, and EnsureFuncDeployment
\* returns an error, sends no request and leaves the stored Deployment, if
\* any, as it was.
C28_SkippedWhenStagedRefusedWhenBuilt ==
    (/\ pc = "tested"
     /\ funcObj.spec.deps # ""
     /\ funcObj.spec.runtime \notin RegisteredRuntimes)
        => /\ out.call = "getProvisionContainer" =>
                 /\ out.err = "ok"
                 /\ \A c \in out.val : c.name = "prepare" /\ ~c.copiesDeps
                 /\ Cardinality(out.val) = 1
           /\ out.call = "EnsureFuncConfigMap" =>
                 /\ out.err = "ok"
                 /\ "requirements.txt" \notin
                       DOMAIN Stored(clientset, "ConfigMap").obj.data
           /\ out.call = "EnsureFuncDeployment" =>
                 /\ out.err = "err"
                 /\ clientset.actions = <<>>
                 /\ clientset \in {NoClientset, PreviousClientset}

\* C28 witness: EnsureFuncDeployment has returned its error for a Function
\* with dependencies for cobol and an image of its own.
C28_Witness ==
    /\ pc = "tested"
    /\ out.call = "EnsureFuncDeployment"
    /\ out.err = "err"
    /\ funcObj.spec.deps = "deps"
    /\ funcObj.spec.runtime = "cobol"
    /\ funcObj.spec.deployment.image = "test-image"
    /\ clientset = NoClientset

C31_SecondSynthesisIdentical ==
    [][(pc = "tested" /\ pc' = "again")
          => /\ out'.err = "ok"
             /\ \A kd \in Kinds :
                   clientset.objects[kd] # {}
                      => /\ clientset'.objects[kd] # {}
                         /\ Stored(clientset', kd).obj =
                               Stored(clientset, kd).obj]_vars

\* C32: on the ensure path the owned resources are applied in the order
\* ConfigMap, Service, Deployment, then the Monitor (only for a declared
\* autoscaler whose first metric is of object type) and the Autoscaler: a
\* call is made only after every earlier one succeeded.  The first call
\* that fails ends the attempt with the error and no later call is made:
\* after a failed Monitor creation the attempt has not called
\* CreateAutoscale.
C32_EnsureOrderAndFirstFailureEnds ==
    att.path = "ensure"
       => /\ att.app["Service"] # "none" => att.app["ConfigMap"] = "ok"
          /\ att.app["Deployment"] # "none" => att.app["Service"] = "ok"
          /\ att.app["Monitor"] # "none"
                => /\ att.app["Deployment"] = "ok"
                   /\ funcObj.spec.hpa.name # ""
                   /\ funcObj.spec.hpa.scaleTarget # ""
                   /\ funcObj.spec.hpa.metrics[1] = "Object"
          /\ att.app["Autoscaler"] # "none"
                => /\ att.app["Deployment"] = "ok"
                   /\ att.app["Monitor"] \in {"ok", "none"}
                   /\ att.app["Monitor"] = "none"
                         => funcObj.spec.hpa.metrics[1] # "Object"
          /\ \A r \in Owned :
                att.app[r] = "err" => (pc = "ret" /\ att.ret = "err")
          /\ Cardinality({r \in Owned : att.app[r] = "err"}) <= 1
          /\ att.app["Monitor"] = "err" => att.app["Autoscaler"] = "none"

\* C32 witness: ConfigMap, Service and Deployment were applied, the
\* creation of the Monitor failed, and the attempt has returned the error
\* without a call for the Autoscaler, which the cluster does not hold.
C32_Witness ==
    /\ pc = "ret"
    /\ att.path = "ensure"
    /\ att.ret = "err"
    /\ att.app["ConfigMap"] = "ok"
    /\ att.app["Service"] = "ok"
    /\ att.app["Deployment"] = "ok"
    /\ att.app["Monitor"] = "err"
    /\ att.app["Autoscaler"] = "none"
    /\ ~res[key]["Autoscaler"]

\* C33 as claimed: on the deletion path the deletes are issued in the
\* order Deployment, Service, ConfigMap, Monitor, Autoscaler, each after
\* the one before it was answered with success or not-found; the first
\* delete answered with another error ends the attempt without a call
\* that removes the finalizer, and every attempt starts again at the
\* Deployment.
C33_FiveDeletesInOrder ==
    att.path = "delete"
       => /\ att.del["Service"] # "none"
                => att.del["Deployment"] \in {"ok", "notfound"}
          /\ att.del["ConfigMap"] # "none"
                => att.del["Service"] \in {"ok", "notfound"}
          /\ att.del["Monitor"] # "none"
                => att.del["ConfigMap"] \in {"ok", "notfound"}
          /\ att.del["Autoscaler"] # "none"
                => att.del["Monitor"] \in {"ok", "notfound"}
          /\ \A r \in Owned :
                att.del[r] = "err"
                   => /\ pc = "ret"
                      /\ att.ret = "err"
                      /\ att.fin = "none"

\* C33: on the deletion path the deletes are issued in the order
\* Deployment, Service, ConfigMap, then the Monitor only when the monitor
\* client is configured, then the Autoscaler, each after the one before it
\* was answered with success or not-found; the first delete answered with
\* another error ends the attempt with that error, no later delete and no
\* finalizer removal is attempted, so the attempt leaves the finalizer on
\* the Function; every attempt on the deletion path starts again at the
\* Deployment.
C33_DeletesInOrderMonitorIfClient ==
    att.path = "delete"
       => /\ att.del["Service"] # "none"
                => att.del["Deployment"] \in {"ok", "notfound"}
          /\ att.del["ConfigMap"] # "none"
                => att.del["Service"] \in {"ok", "notfound"}
          /\ att.del["Monitor"] # "none"
                => (smclient /\ att.del["ConfigMap"] \in {"ok", "notfound"})
          /\ att.del["Autoscaler"] # "none"
                => /\ att.del["ConfigMap"] \in {"ok", "notfound"}
                   /\ att.del["Monitor"] \in
                         IF smclient THEN {"ok", "notfound"} ELSE {"none"}
          /\ att.fin # "none" => att.del["Autoscaler"] \in {"ok", "notfound"}
          /\ Cardinality({r \in Owned : att.del[r] = "err"}) <= 1
          /\ \A r \in Owned :
                att.del[r] = "err"
                   => /\ pc = "ret"
                      /\ att.ret = "err"
                      /\ att.fin = "none"

\* C33 witness: a retry on the deletion path, after an attempt that had
\* deleted the Deployment, asked again for the Deployment (not found),
\* failed at the Service and has returned the error; the Function keeps
\* its finalizer.
C33_Witness ==
    /\ pc = "ret"
    /\ att.path = "delete"
    /\ wq.failures[key] = 1
    /\ att.del["Deployment"] = "notfound"
    /\ att.del["Service"] = "err"
    /\ att.del["ConfigMap"] = "none"
    /\ att.ret = "err"
    /\ res[key]["Service"]
    /\ FunctionObjHasFinalizer(api[key], functionFinalizer)

\* C34: a key whose processing fails every time and for which no event
\* arrives after the one that queued it (the indexer still holds the object
\* of the creation) is attempted six times at most: never more than five
\* requeues are counted, and once the attempt that found five counted has
\* given the key up, the queue holds nothing of the key: it is neither
\* pending nor marked nor waiting for a rate-limited re-add.
C34_SixAttemptsThenQueueEmpty ==
    \A k \in Keys :
        /\ wq.failures[k] <= maxRetries
        /\ (pc = "idle" /\ reported = {k} /\ cache[k].rv = 1)
              => /\ wq.queue = <<>>
                 /\ k \notin wq.dirty
                 /\ k \notin wq.waiting
                 /\ wq.failures[k] = 0

\* C34 witness: the key was given up while the indexer still holds the
\* object of the creation, and nothing of the key is left in the queue.
C34_Witness ==
    \E k \in Keys :
        /\ pc = "idle"
        /\ reported = {k}
        /\ cache[k].exists
        /\ cache[k].rv = 1
        /\ watch = <<>>
        /\ wq.queue = <<>>
        /\ k \notin wq.waiting

\* C35: no event is lost to an attempt in flight: a key for which an event
\* was queued while the worker is processing it (the key is marked dirty
\* while in processing) is handed to the worker once more after the attempt
\* is marked done, whatever became of the attempt.
C35_EventDuringAttemptProcessedAgain ==
    \A k \in Keys :
        (k \in wq.processing /\ k \in wq.dirty)
            ~> (k \in wq.processing /\ k \notin wq.dirty)

\* C36: a successful attempt resets the key's retry state: when
\* processNextItem finishes an attempt in which processItem returned no
\* error, the key's requeue count is zero afterwards, whatever it was, so a
\* later sequence of failures has the whole budget; the attempt adds no
\* rate-limited re-add and reports nothing.
C36_SuccessResetsRequeueCount ==
    [][(pc = "ret" /\ pc' = "idle" /\ att.ret = "ok")
          => /\ wq'.failures[key] = 0
             /\ wq'.waiting = wq.waiting
             /\ reported' = {}]_vars

\* C36 witness: an attempt failed and its re-add is still waiting when an
\* attempt started by an event has succeeded: the Function's Deployment is
\* applied and the requeue count is zero again.
C36_Witness ==
    \E k \in Keys :
        /\ pc = "idle"
        /\ reported = {}
        /\ k \in wq.waiting
        /\ wq.failures[k] = 0
        /\ res[k]["Deployment"]
        /\ api[k].exists
        /\ api[k].dt = 0

\* C37: for every Function that declares an autoscaler the ensure path ends
\* with a returned value, success or error, and never aborts the worker, also
\* when the autoscaler's metric list is empty and when the first metric is
\* of object type while the monitor client is not configured: the worker is
\* never ended by a panic.
C37_AutoscalerEnsureReturns ==
    \A k \in Keys :
        (key = k /\ AutoscalerDeclared(funcObj)) => pc # "crashed"

\* C38: quiescence: after a Function is created and no further external
\* event occurs, with every cluster API call succeeding, the system reaches
\* a state where the queue is empty and no key is in processing, and stays
\* there.
C38_Quiescence ==
    \/ <>(att.ret = "err")
    \/ <>[](wq.queue = <<>> /\ wq.processing = {})

====
